---- MODULE Spec2Model ----
(***************************************************************************)
(* A model of the dyncom ARM11 interpreter of                              *)
(* src/core/arm/dyncom/arm_dyncom_interpreter.cpp: the translator          *)
(* (InterpreterTranslate), the block cache, the dispatch loop              *)
(* (InterpreterMainLoop) and the instruction handlers.                     *)
(*                                                                         *)
(* A 32-bit word (u32) is the pair <<hi, lo>> of its two 16-bit halves:    *)
(* TLC's integers are 32-bit signed, so 0x80000000 and above cannot be     *)
(* written as one number.  All arithmetic is modulo 2^32 on that pair.     *)
(***************************************************************************)
EXTENDS Integers, Sequences, FiniteSets, TLC

----------------------------------------------------------------------------
(* 32-bit words                                                            *)

H16 == 2 ^ 16

W(hi, lo) == <<hi, lo>>

\* the word of a number below 2^31
U(n) == <<n \div H16, n % H16>>

ZERO == <<0, 0>>
ONES == <<65535, 65535>>

\* BIT(s, n): bit n of s
BIT(s, n) == IF n < 16 THEN (s[2] \div (2 ^ n)) % 2 ELSE (s[1] \div (2 ^ (n - 16))) % 2

\* BITS(s, a, b): bits a..b of s as a number (b - a < 31)
BITS(s, a, b) ==
    IF a >= 16 THEN (s[1] \div (2 ^ (a - 16))) % (2 ^ (b - a + 1))
    ELSE IF b < 16 THEN (s[2] \div (2 ^ a)) % (2 ^ (b - a + 1))
    ELSE (s[2] \div (2 ^ a)) + (s[1] % (2 ^ (b - 15))) * (2 ^ (16 - a))

RECURSIVE And16(_, _, _)
And16(a, b, n) ==
    IF n = 0 THEN 0
    ELSE (a % 2) * (b % 2) + 2 * And16(a \div 2, b \div 2, n - 1)

\* the operands are bound so that each is evaluated once
And32(x, y) ==
    CHOOSE r \in {<<And16(a[1], b[1], 16), And16(a[2], b[2], 16)>> : a \in {x}, b \in {y}} :
        TRUE
Not32(x) == <<65535 - x[1], 65535 - x[2]>>
Or32(x, y) == Not32(And32(Not32(x), Not32(y)))
Xor32(x, y) == And32(Or32(x, y), Not32(And32(x, y)))

\* x + y + c modulo 2^32, and the carry out of bit 31
Sum16(a, b, c) == [value |-> (a + b + c) % H16, carry |-> (a + b + c) \div H16]
Sum33(x, y, c) ==
    CHOOSE r \in {[value |-> <<Sum16(a[1], b[1], Sum16(a[2], b[2], c).carry).value,
                               Sum16(a[2], b[2], c).value>>,
                    carry |-> Sum16(a[1], b[1], Sum16(a[2], b[2], c).carry).carry] :
                   a \in {x}, b \in {y}} : TRUE

Add32(x, y) == Sum33(x, y, 0).value
Sub32(x, y) == Sum33(x, Not32(y), 1).value
AddN(x, n) == Add32(x, U(n))

\* x << n, x >> n (logical) and (s32)x >> n for 0 <= n <= 31
Shl32(x, n) ==
    IF n = 0 THEN x
    ELSE IF n < 16
    THEN <<((x[1] % (2 ^ (16 - n))) * (2 ^ n)) + (x[2] \div (2 ^ (16 - n))),
           (x[2] % (2 ^ (16 - n))) * (2 ^ n)>>
    ELSE <<(x[2] % (2 ^ (32 - n))) * (2 ^ (n - 16)), 0>>

Shr32(x, n) ==
    IF n = 0 THEN x
    ELSE IF n < 16
    THEN <<x[1] \div (2 ^ n),
           (x[2] \div (2 ^ n)) + (x[1] % (2 ^ n)) * (2 ^ (16 - n))>>
    ELSE <<0, x[1] \div (2 ^ (n - 16))>>

Asr32(x, n) ==
    IF BIT(x, 31) = 0 THEN Shr32(x, n)
    ELSE Not32(Shr32(Not32(x), n))

\* ROTATE_RIGHT_32(n, i) == (n << (32 - i)) | (n >> i).  For i = 0 the C++
\* shift by 32 is undefined; every build this code targets yields n (x86
\* masks the count to 0, ARM shifts everything out and ORs n back in).
ROTATE_RIGHT_32(n, i) ==
    IF i = 0 THEN n ELSE Or32(Shl32(n, 32 - i), Shr32(n, i))

\* x & 0xFFFFFFFC, x & 0xFFFFFFFE, x | 1
AlignWord(x) == <<x[1], x[2] - (x[2] % 4)>>
AlignHalf(x) == <<x[1], x[2] - (x[2] % 2)>>
SetBit0(x) == <<x[1], x[2] + 1 - (x[2] % 2)>>

\* the word with bit n set to b and every other bit as in x
WithBit(x, n, b) ==
    IF n < 16 THEN <<x[1], x[2] + (b - BIT(x, n)) * (2 ^ n)>>
    ELSE <<x[1] + (b - BIT(x, n)) * (2 ^ (n - 16)), x[2]>>

----------------------------------------------------------------------------
(* flow kinds of a record (inst_base->br) and processor modes              *)

COND            == 1
NON_BRANCH      == 2
DIRECT_BRANCH   == 4
INDIRECT_BRANCH == 8
CALL            == 16
RET             == 32
END_OF_PAGE     == 64
THUMB           == 128

USER32MODE   == 16
FIQ32MODE    == 17
IRQ32MODE    == 18
SVC32MODE    == 19
ABORT32MODE  == 23
UNDEF32MODE  == 27
SYSTEM32MODE == 31

\* sizeof(arm_inst): idx, cond, br, then the payload
sizeof_arm_inst == 12

----------------------------------------------------------------------------
(* CondPassed, on the flag fields of the CPU state                         *)

CondPassed(cpu, cond) ==
    LET NFLAG == cpu.NFlag = 1
        ZFLAG == cpu.ZFlag = 1
        CFLAG == cpu.CFlag = 1
        VFLAG == cpu.VFlag = 1
    IN  CASE cond = 0  -> ZFLAG
          [] cond = 1  -> ~ZFLAG
          [] cond = 2  -> CFLAG
          [] cond = 3  -> ~CFLAG
          [] cond = 4  -> NFLAG
          [] cond = 5  -> ~NFLAG
          [] cond = 6  -> VFLAG
          [] cond = 7  -> ~VFLAG
          [] cond = 8  -> CFLAG /\ ~ZFLAG
          [] cond = 9  -> ~CFLAG \/ ZFLAG
          [] cond = 10 -> (~NFLAG /\ ~VFLAG) \/ (NFLAG /\ VFLAG)
          [] cond = 11 -> (NFLAG /\ ~VFLAG) \/ (~NFLAG /\ VFLAG)
          [] cond = 12 -> (~NFLAG /\ ~VFLAG /\ ~ZFLAG) \/ (NFLAG /\ VFLAG /\ ~ZFLAG)
          [] cond = 13 -> ((NFLAG /\ ~VFLAG) \/ (~NFLAG /\ VFLAG)) \/ ZFLAG
          [] cond = 14 -> TRUE
          [] cond = 15 -> TRUE

\* the test every conditional handler opens with
Passes(cpu, rec) == rec.cond = 14 \/ CondPassed(cpu, rec.cond)

----------------------------------------------------------------------------
(* ARMul_State helpers that live outside this file                         *)

\* cpu->GetInstructionSize(): 2 in Thumb state, 4 in ARM state
GetInstructionSize(cpu) == IF cpu.TFlag = 1 THEN 2 ELSE 4

\* CHECK_READ_REG15: R15 read as a source is the instruction address plus
\* two instruction sizes
CHECK_READ_REG15(cpu, r) ==
    IF r = 15
    THEN AddN(AlignHalf(cpu.Reg[15]), 2 * GetInstructionSize(cpu))
    ELSE cpu.Reg[r]

\* CHECK_READ_REG15_WA: the same, word-aligned
CHECK_READ_REG15_WA(cpu, r) ==
    IF r = 15
    THEN AddN(AlignWord(cpu.Reg[15]), 2 * GetInstructionSize(cpu))
    ELSE cpu.Reg[r]

\* AddWithCarry(x, y, carry_in, &carry, &overflow)
AddWithCarry(x, y, cin) ==
    LET s == Sum33(x, y, cin)
    IN  [result   |-> s.value,
         carry    |-> s.carry,
         overflow |-> IF BIT(x, 31) = BIT(y, 31) /\ BIT(s.value, 31) # BIT(x, 31)
                      THEN 1 ELSE 0]

\* the register bank a mode uses for R13, R14 and SPSR
BankOf(mode) ==
    CASE mode = FIQ32MODE   -> "fiq"
      [] mode = IRQ32MODE   -> "irq"
      [] mode = SVC32MODE   -> "svc"
      [] mode = ABORT32MODE -> "abt"
      [] mode = UNDEF32MODE -> "und"
      [] OTHER              -> "usr"

Banks == {"usr", "fiq", "irq", "svc", "abt", "und"}

\* cpu->ChangePrivilegeMode(new_mode): bank out R13, R14 and SPSR of the old
\* mode, bank in those of the new one
ChangePrivilegeMode(cpu, new_mode) ==
    IF cpu.Mode = new_mode THEN cpu
    ELSE LET out  == BankOf(cpu.Mode)
             in   == BankOf(new_mode)
             bank == [cpu.bank EXCEPT ![out] = <<cpu.Reg[13], cpu.Reg[14], cpu.Spsr_copy>>]
         IN  [cpu EXCEPT !.Mode = new_mode,
                         !.bank = bank,
                         !.Reg = [@ EXCEPT ![13] = bank[in][1], ![14] = bank[in][2]],
                         !.Spsr_copy = bank[in][3]]

\* cpu->InAPrivilegedMode()
InAPrivilegedMode(cpu) == cpu.Mode # USER32MODE

\* the exclusive monitor: NoAddress, or the address of the outstanding LDREX
NoAddress == <<>>
SetExclusiveMemoryAddress(cpu, a) == [cpu EXCEPT !.exclusive = a]
UnsetExclusiveMemoryAddress(cpu) == [cpu EXCEPT !.exclusive = NoAddress]
IsExclusiveMemoryAccess(cpu, a) == cpu.exclusive = a

----------------------------------------------------------------------------
(* guest memory: a map from word-aligned addresses to the words written;   *)
(* every other word of the image holds FillWord, the instruction "B ."     *)
(* (0xEAFFFFFE), so that a jump to any address finds a one-instruction     *)
(* block there                                                             *)

FillWord == <<60159, 65534>>

Read32(m, a) == IF AlignWord(a) \in DOMAIN m THEN m[AlignWord(a)] ELSE FillWord

Write32(m, a, v) ==
    [x \in DOMAIN m \cup {AlignWord(a)} |-> IF x = AlignWord(a) THEN v ELSE m[x]]

\* byte n (0..3, little-endian) of word w replaced by b
WithByte(w, n, b) ==
    CASE n = 0 -> <<w[1], (w[2] \div 256) * 256 + b>>
      [] n = 1 -> <<w[1], b * 256 + (w[2] % 256)>>
      [] n = 2 -> <<(w[1] \div 256) * 256 + b, w[2]>>
      [] n = 3 -> <<b * 256 + (w[1] % 256), w[2]>>

Write8(m, a, v) == Write32(m, a, WithByte(Read32(m, a), a[2] % 4, v[2] % 256))

Write16(m, a, v) ==
    Write32(m, a, IF (a[2] % 4) \div 2 = 0 THEN <<Read32(m, a)[1], v[2]>>
                  ELSE <<v[2], Read32(m, a)[2]>>)

----------------------------------------------------------------------------
(* DataProcessingOperands: the shifter operand and cpu->shifter_carry_out  *)
(* of the 12-bit field sht_oper (a number).  Each yields [so, sco].        *)

DPO_RM(sht_oper) == sht_oper % 16
DPO_RS(sht_oper) == (sht_oper \div 256) % 16
RS_0_7(cpu, sht_oper) == CHECK_READ_REG15(cpu, DPO_RS(sht_oper))[2] % 256

DPO_Immediate(cpu, sht_oper) ==
    LET immed_8    == sht_oper % 256
        rotate_imm == (sht_oper \div 256) % 16
        shifter_operand == ROTATE_RIGHT_32(U(immed_8), rotate_imm * 2)
    IN  [so  |-> shifter_operand,
         sco |-> IF rotate_imm = 0 THEN cpu.CFlag ELSE BIT(shifter_operand, 31)]

DPO_Register(cpu, sht_oper) ==
    [so |-> CHECK_READ_REG15(cpu, DPO_RM(sht_oper)), sco |-> cpu.CFlag]

DPO_LogicalShiftLeftByImmediate(cpu, sht_oper) ==
    LET shift_imm == (sht_oper \div 128) % 32
        rm == CHECK_READ_REG15(cpu, DPO_RM(sht_oper))
    IN  IF shift_imm = 0 THEN [so |-> rm, sco |-> cpu.CFlag]
        ELSE [so |-> Shl32(rm, shift_imm), sco |-> BIT(rm, 32 - shift_imm)]

DPO_LogicalShiftLeftByRegister(cpu, sht_oper) ==
    LET rm == CHECK_READ_REG15(cpu, DPO_RM(sht_oper))
        n  == RS_0_7(cpu, sht_oper)
    IN  IF n = 0 THEN [so |-> rm, sco |-> cpu.CFlag]
        ELSE IF n < 32 THEN [so |-> Shl32(rm, n), sco |-> BIT(rm, 32 - n)]
        ELSE IF n = 32 THEN [so |-> ZERO, sco |-> BIT(rm, 0)]
        ELSE [so |-> ZERO, sco |-> 0]

\* LSR by immediate taking the amount 0 for no shift
DPO_LogicalShiftRightByImmediate_plain(cpu, sht_oper) ==
    LET shift_imm == (sht_oper \div 128) % 32
        rm == CHECK_READ_REG15(cpu, DPO_RM(sht_oper))
    IN  IF shift_imm = 0 THEN [so |-> rm, sco |-> cpu.CFlag]
        ELSE [so |-> Shr32(rm, shift_imm), sco |-> BIT(rm, shift_imm - 1)]

DPO_LogicalShiftRightByImmediate(cpu, sht_oper) ==
    LET shift_imm == (sht_oper \div 128) % 32
        rm == CHECK_READ_REG15(cpu, DPO_RM(sht_oper))
    IN  IF shift_imm = 0 THEN [so |-> ZERO, sco |-> BIT(rm, 31)]
        ELSE [so |-> Shr32(rm, shift_imm), sco |-> BIT(rm, shift_imm - 1)]

DPO_LogicalShiftRightByRegister(cpu, sht_oper) ==
    LET rm == CHECK_READ_REG15(cpu, DPO_RM(sht_oper))
        n  == RS_0_7(cpu, sht_oper)
    IN  IF n = 0 THEN [so |-> rm, sco |-> cpu.CFlag]
        ELSE IF n < 32 THEN [so |-> Shr32(rm, n), sco |-> BIT(rm, n - 1)]
        ELSE IF n = 32 THEN [so |-> ZERO, sco |-> BIT(rm, 31)]
        ELSE [so |-> ZERO, sco |-> 0]

DPO_ArithmeticShiftRightByImmediate(cpu, sht_oper) ==
    LET shift_imm == (sht_oper \div 128) % 32
        rm == CHECK_READ_REG15(cpu, DPO_RM(sht_oper))
    IN  IF shift_imm = 0
        THEN [so |-> IF BIT(rm, 31) = 0 THEN ZERO ELSE ONES, sco |-> BIT(rm, 31)]
        ELSE [so |-> Asr32(rm, shift_imm), sco |-> BIT(rm, shift_imm - 1)]

DPO_ArithmeticShiftRightByRegister(cpu, sht_oper) ==
    LET rm == CHECK_READ_REG15(cpu, DPO_RM(sht_oper))
        n  == RS_0_7(cpu, sht_oper)
    IN  IF n = 0 THEN [so |-> rm, sco |-> cpu.CFlag]
        ELSE IF n < 32 THEN [so |-> Asr32(rm, n), sco |-> BIT(rm, n - 1)]
        ELSE [so |-> IF BIT(rm, 31) = 0 THEN ZERO ELSE ONES, sco |-> BIT(rm, 31)]

DPO_RotateRightByImmediate(cpu, sht_oper) ==
    LET shift_imm == (sht_oper \div 128) % 32
        rm == CHECK_READ_REG15(cpu, DPO_RM(sht_oper))
    IN  IF shift_imm = 0
        THEN [so |-> WithBit(Shr32(rm, 1), 31, cpu.CFlag), sco |-> BIT(rm, 0)]
        ELSE [so |-> ROTATE_RIGHT_32(rm, shift_imm), sco |-> BIT(rm, shift_imm - 1)]

DPO_RotateRightByRegister(cpu, sht_oper) ==
    LET rm == CHECK_READ_REG15(cpu, DPO_RM(sht_oper))
        n  == RS_0_7(cpu, sht_oper)
    IN  IF n = 0 THEN [so |-> rm, sco |-> cpu.CFlag]
        ELSE IF n % 32 = 0 THEN [so |-> rm, sco |-> BIT(rm, 31)]
        ELSE [so |-> ROTATE_RIGHT_32(rm, n % 32), sco |-> BIT(rm, (n % 32) - 1)]

\* get_shtop(inst): which of the above a data-processing word selects
get_shtop(inst) ==
    IF BIT(inst, 25) = 1 THEN "Immediate"
    ELSE IF BITS(inst, 4, 11) = 0 THEN "Register"
    ELSE IF BITS(inst, 4, 6) = 0 THEN "LogicalShiftLeftByImmediate"
    ELSE IF BITS(inst, 4, 7) = 1 THEN "LogicalShiftLeftByRegister"
    ELSE IF BITS(inst, 4, 6) = 2 THEN "LogicalShiftRightByImmediate"
    ELSE IF BITS(inst, 4, 7) = 3 THEN "LogicalShiftRightByRegister"
    ELSE IF BITS(inst, 4, 6) = 4 THEN "ArithmeticShiftRightByImmediate"
    ELSE IF BITS(inst, 4, 7) = 5 THEN "ArithmeticShiftRightByRegister"
    ELSE IF BITS(inst, 4, 6) = 6 THEN "RotateRightByImmediate"
    ELSE IF BITS(inst, 4, 7) = 7 THEN "RotateRightByRegister"
    ELSE "nullptr"

\* SHIFTER_OPERAND: inst_cream->shtop_func(cpu, inst_cream->shifter_operand)
SHIFTER_OPERAND(cpu, rec) ==
    CASE rec.shtop_func = "Immediate" -> DPO_Immediate(cpu, rec.shifter_operand)
      [] rec.shtop_func = "Register" -> DPO_Register(cpu, rec.shifter_operand)
      [] rec.shtop_func = "LogicalShiftLeftByImmediate" ->
            DPO_LogicalShiftLeftByImmediate(cpu, rec.shifter_operand)
      [] rec.shtop_func = "LogicalShiftLeftByRegister" ->
            DPO_LogicalShiftLeftByRegister(cpu, rec.shifter_operand)
      [] rec.shtop_func = "LogicalShiftRightByImmediate" ->
            DPO_LogicalShiftRightByImmediate(cpu, rec.shifter_operand)
      [] rec.shtop_func = "LogicalShiftRightByRegister" ->
            DPO_LogicalShiftRightByRegister(cpu, rec.shifter_operand)
      [] rec.shtop_func = "ArithmeticShiftRightByImmediate" ->
            DPO_ArithmeticShiftRightByImmediate(cpu, rec.shifter_operand)
      [] rec.shtop_func = "ArithmeticShiftRightByRegister" ->
            DPO_ArithmeticShiftRightByRegister(cpu, rec.shifter_operand)
      [] rec.shtop_func = "RotateRightByImmediate" ->
            DPO_RotateRightByImmediate(cpu, rec.shifter_operand)
      [] rec.shtop_func = "RotateRightByRegister" ->
            DPO_RotateRightByRegister(cpu, rec.shifter_operand)

----------------------------------------------------------------------------
(* Pre-decoded records.  A record is the arm_inst header (idx, cond, br)   *)
(* and the fields of its payload struct; alloc is the size its translator  *)
(* passed to AllocBuffer.  idx is the name of the entry of                 *)
(* arm_instruction_trans / InstLabel instead of its position.  inst_buf is *)
(* static and top only grows, so a field no translator writes is 0.        *)

\* sizeof the payload structs (LP64: a function pointer is 8 bytes, 8-aligned)
sizeof(s) ==
    CASE s \in {"adc_inst", "add_inst", "and_inst", "bic_inst", "eor_inst", "orr_inst",
                "rsb_inst", "rsc_inst", "sbc_inst", "sub_inst"} -> 32
      [] s \in {"mov_inst", "mvn_inst", "cmp_inst", "cmn_inst", "teq_inst", "tst_inst"} -> 24
      [] s \in {"bbl_inst", "ldst_inst"} -> 16
      [] s = "generic_arm_inst" -> 20
      [] s \in {"cdp_inst", "cps_inst"} -> 28
      [] s = "msr_inst" -> 12
      [] s \in {"clrex_inst", "ldc_inst", "stc_inst"} -> 1
      [] s \in {"bx_inst", "swi_inst"} -> 4
      [] s = "ssat_inst" -> 20
      [] s = "b_2_thumb" -> 4
      [] s = "b_cond_thumb" -> 8

Header(inst, index, br, payload) ==
    [idx |-> index, cond |-> BITS(inst, 28, 31), br |-> br,
     alloc |-> sizeof_arm_inst + payload]

\* adc, add, and, bic, eor, orr, rsb, rsc, sbc, sub: the same translator body
InterpreterTranslate_dp(inst, index, payload) ==
    Header(inst, index,
           IF BITS(inst, 12, 15) = 15 THEN INDIRECT_BRANCH ELSE NON_BRANCH, payload)
    @@ [I |-> BIT(inst, 25), S |-> BIT(inst, 20),
        Rn |-> BITS(inst, 16, 19), Rd |-> BITS(inst, 12, 15),
        shifter_operand |-> BITS(inst, 0, 11), shtop_func |-> get_shtop(inst)]

\* mov, mvn: no Rn
InterpreterTranslate_mov(inst, index) ==
    Header(inst, index,
           IF BITS(inst, 12, 15) = 15 THEN INDIRECT_BRANCH ELSE NON_BRANCH,
           sizeof("mov_inst"))
    @@ [I |-> BIT(inst, 25), S |-> BIT(inst, 20), Rd |-> BITS(inst, 12, 15),
        shifter_operand |-> BITS(inst, 0, 11), shtop_func |-> get_shtop(inst)]

\* cmn, cmp, teq, tst: no Rd, no S, never a branch
InterpreterTranslate_cmp(inst, index) ==
    Header(inst, index, NON_BRANCH, sizeof("cmp_inst"))
    @@ [I |-> BIT(inst, 25), Rn |-> BITS(inst, 16, 19),
        shifter_operand |-> BITS(inst, 0, 11), shtop_func |-> get_shtop(inst)]

InterpreterTranslate_bbl(inst, index) ==
    LET br0 == IF BIT(inst, 24) = 1 THEN CALL ELSE DIRECT_BRANCH
        br  == IF BITS(inst, 28, 31) <= 14 THEN br0 + COND ELSE br0
        POSBRANCH == Shl32(And32(inst, <<127, 65535>>), 2)
        NEGBRANCH == Shl32(Or32(<<65280, 0>>, And32(inst, <<255, 65535>>)), 2)
    IN  Header(inst, index, br, sizeof("bbl_inst"))
        @@ [L |-> BIT(inst, 24),
            signed_immed_24 |-> IF BIT(inst, 23) = 1 THEN NEGBRANCH ELSE POSBRANCH]

\* get_calc_addr_op(inst): the addressing function of a load/store word
get_calc_addr_op(inst) ==
    IF BITS(inst, 24, 27) = 5 /\ BIT(inst, 21) = 0 THEN "LnSWoUB_ImmediateOffset"
    ELSE IF BITS(inst, 24, 27) = 7 /\ BIT(inst, 21) = 0 /\ BITS(inst, 4, 11) = 0
         THEN "LnSWoUB_RegisterOffset"
    ELSE IF BITS(inst, 24, 27) = 7 /\ BIT(inst, 21) = 0 /\ BIT(inst, 4) = 0
         THEN "LnSWoUB_ScaledRegisterOffset"
    ELSE IF BITS(inst, 24, 27) = 5 /\ BIT(inst, 21) = 1 THEN "LnSWoUB_ImmediatePreIndexed"
    ELSE IF BITS(inst, 24, 27) = 7 /\ BIT(inst, 21) = 1 /\ BITS(inst, 4, 11) = 0
         THEN "LnSWoUB_RegisterPreIndexed"
    ELSE IF BITS(inst, 24, 27) = 7 /\ BIT(inst, 21) = 1 /\ BIT(inst, 4) = 0
         THEN "LnSWoUB_ScaledRegisterPreIndexed"
    ELSE IF BITS(inst, 24, 27) = 4 /\ BIT(inst, 21) = 0 THEN "LnSWoUB_ImmediatePostIndexed"
    ELSE IF BITS(inst, 24, 27) = 6 /\ BIT(inst, 21) = 0 /\ BITS(inst, 4, 11) = 0
         THEN "LnSWoUB_RegisterPostIndexed"
    ELSE IF BITS(inst, 24, 27) = 6 /\ BIT(inst, 21) = 0 /\ BIT(inst, 4) = 0
         THEN "LnSWoUB_ScaledRegisterPostIndexed"
    ELSE IF BITS(inst, 24, 27) = 1 /\ BITS(inst, 21, 22) = 2 /\ BIT(inst, 7) = 1
            /\ BIT(inst, 4) = 1
         THEN "MLnS_ImmediateOffset"
    ELSE IF BITS(inst, 24, 27) = 1 /\ BITS(inst, 21, 22) = 0 /\ BIT(inst, 7) = 1
            /\ BIT(inst, 4) = 1
         THEN "MLnS_RegisterOffset"
    ELSE IF BITS(inst, 24, 27) = 1 /\ BITS(inst, 21, 22) = 3 /\ BIT(inst, 7) = 1
            /\ BIT(inst, 4) = 1
         THEN "MLnS_ImmediatePreIndexed"
    ELSE IF BITS(inst, 24, 27) = 1 /\ BITS(inst, 21, 22) = 1 /\ BIT(inst, 7) = 1
            /\ BIT(inst, 4) = 1
         THEN "MLnS_RegisterPreIndexed"
    ELSE IF BITS(inst, 24, 27) = 0 /\ BITS(inst, 21, 22) = 2 /\ BIT(inst, 7) = 1
            /\ BIT(inst, 4) = 1
         THEN "MLnS_ImmediatePostIndexed"
    ELSE IF BITS(inst, 24, 27) = 0 /\ BITS(inst, 21, 22) = 0 /\ BIT(inst, 7) = 1
            /\ BIT(inst, 4) = 1
         THEN "MLnS_RegisterPostIndexed"
    ELSE IF BITS(inst, 23, 27) = 17 THEN "LdnStM_IncrementAfter"
    ELSE IF BITS(inst, 23, 27) = 19 THEN "LdnStM_IncrementBefore"
    ELSE IF BITS(inst, 23, 27) = 16 THEN "LdnStM_DecrementAfter"
    ELSE IF BITS(inst, 23, 27) = 18 THEN "LdnStM_DecrementBefore"
    ELSE "nullptr"

\* ldr, ldrcond, str: the word itself and its addressing function
InterpreterTranslate_ldr(inst, index) ==
    Header(inst, index,
           IF BITS(inst, 12, 15) = 15 THEN INDIRECT_BRANCH ELSE NON_BRANCH,
           sizeof("ldst_inst"))
    @@ [inst |-> inst, get_addr |-> get_calc_addr_op(inst)]

InterpreterTranslate_ldm(inst, index) ==
    Header(inst, index, IF BIT(inst, 15) = 1 THEN INDIRECT_BRANCH ELSE NON_BRANCH,
           sizeof("ldst_inst"))
    @@ [inst |-> inst, get_addr |-> get_calc_addr_op(inst)]

\* stm: never a branch
InterpreterTranslate_stm(inst, index) ==
    Header(inst, index, NON_BRANCH, sizeof("ldst_inst"))
    @@ [inst |-> inst, get_addr |-> get_calc_addr_op(inst)]

\* rfe: cond is AL whatever the word says
InterpreterTranslate_rfe(inst, index) ==
    [idx |-> index, cond |-> 14, br |-> INDIRECT_BRANCH,
     alloc |-> sizeof_arm_inst + sizeof("ldst_inst"),
     inst |-> inst, get_addr |-> get_calc_addr_op(inst)]

\* ldrex, ldrexb, ldrexh, ldrexd
InterpreterTranslate_ldrex(inst, index) ==
    Header(inst, index,
           IF BITS(inst, 12, 15) = 15 THEN INDIRECT_BRANCH ELSE NON_BRANCH,
           sizeof("generic_arm_inst"))
    @@ [Rn |-> BITS(inst, 16, 19), Rd |-> BITS(inst, 12, 15)]

\* strex, strexb, strexh, strexd
InterpreterTranslate_strex(inst, index) ==
    Header(inst, index, NON_BRANCH, sizeof("generic_arm_inst"))
    @@ [Rn |-> BITS(inst, 16, 19), Rd |-> BITS(inst, 12, 15), Rm |-> BITS(inst, 0, 3)]

InterpreterTranslate_clrex(inst, index) ==
    Header(inst, index, NON_BRANCH, sizeof("clrex_inst"))

\* qadd, qdadd, qdsub, qsub
InterpreterTranslate_qadd(inst, index) ==
    Header(inst, index, NON_BRANCH, sizeof("generic_arm_inst"))
    @@ [op1 |-> BITS(inst, 21, 22), Rm |-> BITS(inst, 0, 3),
        Rn |-> BITS(inst, 16, 19), Rd |-> BITS(inst, 12, 15)]

InterpreterTranslate_msr(inst, index) ==
    Header(inst, index, NON_BRANCH, sizeof("msr_inst"))
    @@ [field_mask |-> BITS(inst, 16, 19), R |-> BIT(inst, 22), inst |-> inst]

InterpreterTranslate_nop(inst, index) == Header(inst, index, NON_BRANCH, 0)

InterpreterTranslate_cdp(inst, index) ==
    Header(inst, index, NON_BRANCH, sizeof("cdp_inst"))
    @@ [CRm |-> BITS(inst, 0, 3), CRd |-> BITS(inst, 12, 15), CRn |-> BITS(inst, 16, 19),
        cp_num |-> BITS(inst, 8, 11), opcode_2 |-> BITS(inst, 5, 7),
        opcode_1 |-> BITS(inst, 20, 23), inst |-> inst]

InterpreterTranslate_bx(inst, index) ==
    Header(inst, index, INDIRECT_BRANCH, sizeof("bx_inst")) @@ [Rm |-> BITS(inst, 0, 3)]

InterpreterTranslate_ssat(inst, index) ==
    Header(inst, index, NON_BRANCH, sizeof("ssat_inst"))
    @@ [Rn |-> BITS(inst, 0, 3), Rd |-> BITS(inst, 12, 15), imm5 |-> BITS(inst, 7, 11),
        sat_imm |-> BITS(inst, 16, 20), shift_type |-> BIT(inst, 6)]

InterpreterTranslate_swi(inst, index) ==
    Header(inst, index, NON_BRANCH, sizeof("swi_inst")) @@ [num |-> BITS(inst, 0, 23)]

InterpreterTranslate_ldc(inst, index) == Header(inst, index, NON_BRANCH, sizeof("ldc_inst"))

InterpreterTranslate_stc(inst, index) == Header(inst, index, NON_BRANCH, sizeof("stc_inst"))

\* Thumb B: the header's cond is never written
InterpreterTranslate_b_2_thumb(tinst, index) ==
    [idx |-> index, cond |-> 0, br |-> DIRECT_BRANCH,
     alloc |-> sizeof_arm_inst + sizeof("b_2_thumb"),
     imm |-> IF (tinst \div 1024) % 2 = 1
             THEN <<65535, 63488 + (tinst % 1024) * 2>>
             ELSE <<0, (tinst % 1024) * 2>>]

\* Thumb B<cond>: the condition goes to the payload, not to the header
InterpreterTranslate_b_cond_thumb(tinst, index) ==
    [idx |-> index, cond |-> 0, br |-> DIRECT_BRANCH,
     alloc |-> sizeof_arm_inst + sizeof("b_cond_thumb"),
     imm |-> IF (tinst \div 128) % 2 = 1
             THEN <<65535, 65280 + (tinst % 128) * 2>>
             ELSE <<0, (tinst % 128) * 2>>,
     cond_thumb |-> (tinst \div 256) % 16]

InterpreterTranslate_cps(inst, index) ==
    Header(inst, index, NON_BRANCH, sizeof("cps_inst"))
    @@ [imod0 |-> BIT(inst, 18), imod1 |-> BIT(inst, 19), mmod |-> BIT(inst, 17),
        A |-> BIT(inst, 8), I |-> BIT(inst, 7), F |-> BIT(inst, 6),
        mode |-> BITS(inst, 0, 4)]

----------------------------------------------------------------------------
(* The ARM classifier and the Thumb expander (arm_dyncom_dec.cpp and       *)
(* arm_dyncom_thumb.cpp), for the encodings the handlers below cover.      *)
(* Every other word is a decode FAILURE.                                   *)

DataProcessingName(opcode) ==
    CASE opcode = 0 -> "and"   [] opcode = 1 -> "eor"   [] opcode = 2 -> "sub"
      [] opcode = 3 -> "rsb"   [] opcode = 4 -> "add"   [] opcode = 5 -> "adc"
      [] opcode = 6 -> "sbc"   [] opcode = 7 -> "rsc"   [] opcode = 8 -> "tst"
      [] opcode = 9 -> "teq"   [] opcode = 10 -> "cmp"  [] opcode = 11 -> "cmn"
      [] opcode = 12 -> "orr"  [] opcode = 13 -> "mov"  [] opcode = 14 -> "bic"
      [] opcode = 15 -> "mvn"

DecodeARMInstruction(inst) ==
    LET cond == BITS(inst, 28, 31)
    IN  IF inst = <<62847, 61471>> THEN "clrex"                     \* F57FF01F
        ELSE IF cond = 15 /\ BITS(inst, 25, 27) = 4 /\ BIT(inst, 22) = 0
                /\ BIT(inst, 20) = 1 /\ BITS(inst, 0, 15) = 2560 THEN "rfe"
        ELSE IF cond = 15 /\ BITS(inst, 20, 27) = 16 /\ BIT(inst, 16) = 0
                /\ BIT(inst, 5) = 0 THEN "cps"
        ELSE IF cond = 15 THEN "FAILURE"
        ELSE IF BITS(inst, 16, 27) = 800 /\ BITS(inst, 0, 15) = 61440 THEN "nop"
        ELSE IF BITS(inst, 20, 27) = 18 /\ BITS(inst, 8, 19) = 4095
                /\ BITS(inst, 4, 7) \in {1, 2}
             THEN IF BITS(inst, 4, 7) = 1 THEN "bx" ELSE "bxj"
        ELSE IF BITS(inst, 21, 27) = 53 /\ BITS(inst, 4, 5) = 1 THEN "ssat"
        ELSE IF BITS(inst, 24, 27) = 15 THEN "swi"
        ELSE IF BITS(inst, 25, 27) = 6
             THEN IF BIT(inst, 20) = 1 THEN "ldc" ELSE "stc"
        ELSE IF BITS(inst, 23, 27) = 6 /\ BITS(inst, 20, 21) = 2
                /\ BITS(inst, 12, 15) = 15 THEN "msr"
        ELSE IF BITS(inst, 23, 27) = 2 /\ BITS(inst, 20, 21) = 2
                /\ BITS(inst, 12, 15) = 15 /\ BITS(inst, 4, 11) = 0 THEN "msr"
        ELSE IF BITS(inst, 23, 27) = 2 /\ BIT(inst, 20) = 0 /\ BITS(inst, 4, 11) = 5
             THEN CASE BITS(inst, 21, 22) = 0 -> "qadd" [] BITS(inst, 21, 22) = 1 -> "qsub"
                    [] BITS(inst, 21, 22) = 2 -> "qdadd" [] BITS(inst, 21, 22) = 3 -> "qdsub"
        ELSE IF BITS(inst, 23, 27) = 3 /\ BITS(inst, 4, 11) = 249
             THEN CASE BITS(inst, 20, 22) = 0 -> "strex"  [] BITS(inst, 20, 22) = 1 -> "ldrex"
                    [] BITS(inst, 20, 22) = 2 -> "strexd" [] BITS(inst, 20, 22) = 4 -> "strexb"
                    [] BITS(inst, 20, 22) = 6 -> "strexh" [] OTHER -> "FAILURE"
        ELSE IF BITS(inst, 26, 27) = 0
                /\ (BIT(inst, 25) = 1 \/ BIT(inst, 4) = 0 \/ BIT(inst, 7) = 0)
                /\ ~(BITS(inst, 23, 24) = 2 /\ BIT(inst, 20) = 0)
             THEN DataProcessingName(BITS(inst, 21, 24))
        ELSE IF BITS(inst, 26, 27) = 1 /\ (BIT(inst, 25) = 0 \/ BIT(inst, 4) = 0)
                /\ BIT(inst, 22) = 0 /\ ~(BIT(inst, 24) = 0 /\ BIT(inst, 21) = 1)
             THEN IF BIT(inst, 20) = 0 THEN "str"
                  ELSE IF cond = 14 THEN "ldr" ELSE "ldrcond"
        ELSE IF BITS(inst, 25, 27) = 4 /\ BIT(inst, 20) = 1 THEN "ldm"
        ELSE IF BITS(inst, 25, 27) = 4 /\ BIT(inst, 20) = 0 THEN "stm"
        ELSE IF BITS(inst, 25, 27) = 5 THEN "bbl"
        ELSE IF BITS(inst, 24, 27) = 14 /\ BIT(inst, 4) = 0 THEN "cdp"
        ELSE "FAILURE"

\* arm_instruction_trans[idx](inst, idx)
arm_instruction_trans(idx, inst) ==
    CASE idx \in {"adc", "add", "and", "bic", "eor", "orr", "rsb", "rsc", "sbc", "sub"} ->
            InterpreterTranslate_dp(inst, idx, sizeof("add_inst"))
      [] idx \in {"mov", "mvn"} -> InterpreterTranslate_mov(inst, idx)
      [] idx \in {"cmn", "cmp", "teq", "tst"} -> InterpreterTranslate_cmp(inst, idx)
      [] idx = "bbl" -> InterpreterTranslate_bbl(inst, idx)
      [] idx \in {"ldr", "ldrcond", "str"} -> InterpreterTranslate_ldr(inst, idx)
      [] idx = "ldm" -> InterpreterTranslate_ldm(inst, idx)
      [] idx = "stm" -> InterpreterTranslate_stm(inst, idx)
      [] idx = "rfe" -> InterpreterTranslate_rfe(inst, idx)
      [] idx = "ldrex" -> InterpreterTranslate_ldrex(inst, idx)
      [] idx \in {"strex", "strexb", "strexh", "strexd"} ->
            InterpreterTranslate_strex(inst, idx)
      [] idx = "clrex" -> InterpreterTranslate_clrex(inst, idx)
      [] idx \in {"qadd", "qdadd", "qdsub", "qsub"} -> InterpreterTranslate_qadd(inst, idx)
      [] idx = "msr" -> InterpreterTranslate_msr(inst, idx)
      [] idx = "cps" -> InterpreterTranslate_cps(inst, idx)
      [] idx = "nop" -> InterpreterTranslate_nop(inst, idx)
      [] idx = "cdp" -> InterpreterTranslate_cdp(inst, idx)
      [] idx \in {"bx", "bxj"} -> InterpreterTranslate_bx(inst, idx)
      [] idx = "ssat" -> InterpreterTranslate_ssat(inst, idx)
      [] idx = "swi" -> InterpreterTranslate_swi(inst, idx)
      [] idx = "ldc" -> InterpreterTranslate_ldc(inst, idx)
      [] idx = "stc" -> InterpreterTranslate_stc(inst, idx)

\* the entries of the table a stale or unset idx can select
TableIdx ==
    {"adc", "add", "and", "bic", "eor", "orr", "rsb", "rsc", "sbc", "sub", "mov", "mvn",
     "cmn", "cmp", "teq", "tst", "bbl", "ldr", "ldrcond", "str", "ldm", "rfe", "ldrex",
     "strex", "strexb", "strexh", "strexd", "clrex", "qadd", "qdadd", "qdsub", "qsub",
     "msr", "cps", "nop", "cdp", "bx", "bxj", "ssat", "swi", "ldc", "stc",
     "stm"}

\* GetThumbInstruction(instr, address): the halfword at address (little-endian)
GetThumbInstruction(instr, address) ==
    IF address[2] % 4 # 0 THEN instr[1] ELSE instr[2]

\* TranslateThumbInstruction(addr, instr, &ainstr, &inst_size): the branches are
\* left to the branch translators; format 3 (MOV/CMP/ADD/SUB Rd, #imm8) expands
\* to MOVS/CMP/ADDS/SUBS with condition AL, BX Rs (format 5) to BX Rs, and
\* ADD Rd, PC, #imm8 * 4 (format 12) to ADD Rd, PC, #imm8 ROR 30
TranslateThumbInstruction(addr, instr) ==
    LET tinstr == GetThumbInstruction(instr, addr)
        top5   == tinstr \div 2048
        rd     == (tinstr \div 256) % 8
        subset == <<<<58288, 0>>, <<58192, 0>>, <<58000, 0>>, <<57936, 0>>>>
    IN  IF top5 \in {26, 27} /\ (tinstr \div 256) % 16 # 15
        THEN [state |-> "BRANCH", arm_inst |-> ZERO, inst_size |-> 2]
        ELSE IF top5 \in {28, 29, 30, 31}
        THEN [state |-> "BRANCH", arm_inst |-> ZERO, inst_size |-> 2]
        ELSE IF top5 \in {4, 5, 6, 7}
        THEN [state |-> "SUCCESS",
              arm_inst |-> <<subset[top5 - 3][1] + rd, rd * 4096 + (tinstr % 256)>>,
              inst_size |-> 2]
        ELSE IF tinstr \div 128 = 142
        THEN [state |-> "SUCCESS", arm_inst |-> <<57647, 65296 + ((tinstr \div 8) % 16)>>,
              inst_size |-> 2]
        ELSE IF top5 = 20
        THEN [state |-> "SUCCESS", arm_inst |-> <<57999, (rd * 4096) + 3840 + (tinstr % 256)>>,
              inst_size |-> 2]
        ELSE [state |-> "UNDEFINED", arm_inst |-> ZERO, inst_size |-> 2]

\* DecodeThumbInstruction: a Thumb branch is translated here, by the entry of
\* the table the switch on bits 15..11 picks
DecodeThumbInstruction(inst, addr) ==
    LET t      == TranslateThumbInstruction(addr, inst)
        tinstr == GetThumbInstruction(inst, addr)
        top5   == tinstr \div 2048
    IN  IF t.state # "BRANCH" THEN t @@ [inst_base |-> "unset"]
        ELSE IF top5 \in {26, 27}
        THEN IF (tinstr \div 256) % 16 \notin {14, 15}
             THEN t @@ [inst_base |-> InterpreterTranslate_b_cond_thumb(tinstr, "b_cond_thumb")]
             ELSE t @@ [inst_base |-> "unset"]
        ELSE IF top5 = 28
        THEN t @@ [inst_base |-> InterpreterTranslate_b_2_thumb(tinstr, "b_2_thumb")]
        ELSE t @@ [inst_base |-> "unset"]

\* F(e), with e evaluated once however often F reads it
Once(F(_), e) == CHOOSE r \in {F(v) : v \in {e}} : TRUE

\* AllocBuffer(size) followed by the translator's writes: the record sits at
\* the old top
\* #define CACHE_BUFFER_SIZE (64 * 1024 * 2000)
CACHE_BUFFER_SIZE == 131072000

\* AllocBuffer(size): start = top; top += size; past CACHE_BUFFER_SIZE it logs
\* "inst_buf is full", CITRA_IGNORE_EXIT is empty, and &inst_buf[start] is
\* returned all the same: the translator writes its record there.
AllocBuffer(buf, tp, rec) == [inst_buf |-> (tp :> rec) @@ buf, top |-> tp + rec.alloc]

\* One round of the while loop of InterpreterTranslate on an ARM word: dec is
\* what DecodeARMInstruction answered.  idx is the C variable of that name:
\* DecodeARMInstruction leaves it alone on FAILURE and CITRA_IGNORE_EXIT is
\* empty, so the translator of the idx that was there before runs.
Decoded(word, dec, idx, size) ==
    [rec       |-> arm_instruction_trans(IF dec = "FAILURE" THEN idx ELSE dec, word),
     idx       |-> IF dec = "FAILURE" THEN idx ELSE dec,
     inst_size |-> size,
     failed    |-> dec = "FAILURE"]

RoundARM(word, idx, size) ==
    Once(LAMBDA dec : Decoded(word, dec, idx, size), DecodeARMInstruction(word))

\* the same in Thumb state: t is what DecodeThumbInstruction answered
RoundThumb(t, idx) ==
    IF t.state = "BRANCH"
    THEN [rec |-> t.inst_base, idx |-> idx, inst_size |-> t.inst_size, failed |-> FALSE]
    ELSE RoundARM(t.arm_inst, idx, t.inst_size)

Round(cpu, inst, phys_addr, idx) ==
    IF cpu.TFlag = 1
    THEN Once(LAMBDA t : RoundThumb(t, idx), DecodeThumbInstruction(inst, phys_addr))
    ELSE RoundARM(inst, idx, 4)

MarkFailed(t, failed) == [t EXCEPT !.failed = @ \/ failed]

\* the while loop of InterpreterTranslate from phys_addr on: a round, the
\* END_OF_PAGE override, and the test of `ret == NON_BRANCH`.  The fields
\* addr, tflag and failed of a record are no bytes of the arena: they remember
\* the guest address the record was translated from, the T flag of that time,
\* and whether the classifier had reported failure for the word.
RECURSIVE TranslateLoop(_, _, _, _, _, _)
\* TranslateRound without the END_OF_PAGE override
TranslateRound_unpaged(cpu, m, buf, tp, phys_addr, d) ==
    LET next == AddN(phys_addr, d.inst_size)
        rec  == [addr |-> phys_addr, tflag |-> cpu.TFlag, failed |-> d.failed] @@ d.rec
    IN  IF rec.br = NON_BRANCH
        THEN MarkFailed(Once(LAMBDA a : TranslateLoop(cpu, m, a.inst_buf, a.top, next, d.idx),
                             AllocBuffer(buf, tp, rec)),
                        d.failed)
        ELSE [inst_buf |-> AllocBuffer(buf, tp, rec).inst_buf,
              top      |-> AllocBuffer(buf, tp, rec).top,
              failed   |-> d.failed]

TranslateRound(cpu, m, buf, tp, phys_addr, d) ==
    LET next == AddN(phys_addr, d.inst_size)
        rec  == [addr |-> phys_addr, tflag |-> cpu.TFlag, failed |-> d.failed]
                @@ (IF next[2] % 4096 = 0 THEN [d.rec EXCEPT !.br = END_OF_PAGE] ELSE d.rec)
    IN  IF rec.br = NON_BRANCH
        THEN MarkFailed(Once(LAMBDA a : TranslateLoop(cpu, m, a.inst_buf, a.top, next, d.idx),
                             AllocBuffer(buf, tp, rec)),
                        d.failed)
        ELSE [inst_buf |-> AllocBuffer(buf, tp, rec).inst_buf,
              top      |-> AllocBuffer(buf, tp, rec).top,
              failed   |-> d.failed]

TranslateLoop(cpu, m, buf, tp, phys_addr, idx) ==
    Once(LAMBDA inst :
             Once(LAMBDA d : TranslateRound(cpu, m, buf, tp, phys_addr, d),
                  Round(cpu, inst, phys_addr, idx)),
         Read32(m, AlignWord(phys_addr)))

\* what InterpreterTranslate leaves: the arena, bb_start, and the entry of
\* the block in the cache
TranslatedBlock(t, tp, cache) ==
    [inst_buf |-> t.inst_buf, top |-> t.top, bb_start |-> tp, failed |-> t.failed,
     instruction_cache |-> cache]

\* InterpreterTranslate keeping the newest block alone in the cache
InterpreterTranslate_single(cpu, m, buf, tp, cache, addr, idx) ==
    Once(LAMBDA t : TranslatedBlock(t, tp, (cpu.Reg[15] :> tp)),
         TranslateLoop(cpu, m, buf, tp, addr, idx))

\* InterpreterTranslate(cpu, bb_start, addr)
InterpreterTranslate(cpu, m, buf, tp, cache, addr, idx) ==
    Once(LAMBDA t : TranslatedBlock(t, tp, (cpu.Reg[15] :> tp) @@ cache),
         TranslateLoop(cpu, m, buf, tp, addr, idx))

----------------------------------------------------------------------------
(* State                                                                   *)

VARIABLES
    cpu,                \* ARMul_State: Reg, Cpsr, Spsr_copy, the flag fields, Mode, ...
    mem,                \* guest memory
    inst_buf, top,      \* the arena of pre-decoded records and its fill mark
    instruction_cache,  \* cpu->instruction_cache: block entry PC -> arena offset
    ptr, inst_base, num_instrs,   \* the locals of InterpreterMainLoop
    pc,                 \* where InterpreterMainLoop stands
    ret,                \* the value the last call returned
    call,               \* which call of InterpreterMainLoop this is
    entry,              \* the CPU state, memory and budget the first call started from
    first,              \* what the first call returned and left behind
    last,               \* the handler dispatched last, and the state it found
    dispatched,         \* the handlers dispatched in this call
    sticky              \* "set": Q was set by a saturating operation and nothing has
                        \* replaced the CPSR since; "returned": a return from
                        \* exception has, but no MSR to the CPSR; "no" otherwise

vars == <<cpu, mem, inst_buf, top, instruction_cache, ptr, inst_base, num_instrs,
          pc, ret, call, entry, first, last, dispatched, sticky>>

----------------------------------------------------------------------------
(* Saturating arithmetic (armsupp): POS, AddOverflow, SubOverflow, and the  *)
(* body of the QADD/QSUB/QDADD/QDSUB handler on Rm and Rn                  *)

POS(x) == BIT(x, 31) = 0
NEG(x) == BIT(x, 31) = 1
AddOverflow(a, b, r) == (NEG(a) /\ NEG(b) /\ POS(r)) \/ (POS(a) /\ POS(b) /\ NEG(r))
SubOverflow(a, b, r) == (NEG(a) /\ POS(b) /\ POS(r)) \/ (POS(a) /\ NEG(b) /\ NEG(r))

\* POS(result) ? 0x80000000 : 0x7FFFFFFF
SatValue(r) == IF POS(r) THEN <<32768, 0>> ELSE <<32767, 65535>>

\* [result, q]: the value written to Rd and whether Cpsr |= (1 << 27) ran
Saturating(op1, rm_val, rn_val) ==
    LET dbl  == Add32(rn_val, rn_val)
        dsat == AddOverflow(rn_val, rn_val, dbl)
        mul  == IF dsat THEN SatValue(dbl) ELSE dbl
        res  == CASE op1 = 0 -> Add32(rm_val, rn_val)
                  [] op1 = 1 -> Sub32(rm_val, rn_val)
                  [] op1 = 2 -> Add32(mul, rm_val)
                  [] op1 = 3 -> Sub32(rm_val, mul)
        ovf  == CASE op1 = 0 -> AddOverflow(rm_val, rn_val, res)
                  [] op1 = 1 -> SubOverflow(rm_val, rn_val, res)
                  [] op1 = 2 -> AddOverflow(rm_val, mul, res)
                  [] op1 = 3 -> SubOverflow(rm_val, mul, res)
    IN  [result |-> IF ovf THEN SatValue(res) ELSE res,
         q      |-> ovf \/ (op1 \in {2, 3} /\ dsat)]

Saturates(c, rec) == Saturating(rec.op1, c.Reg[rec.Rm], c.Reg[rec.Rn]).q

----------------------------------------------------------------------------
(* The macros of InterpreterMainLoop                                       *)

\* SAVE_NZCVT with the mask 0x07ffffdf, which drops bit 27
SAVE_NZCVT_narrow(c) ==
    [c EXCEPT !.Cpsr =
        <<(c.Cpsr[1] % 2048) + c.NFlag * 32768 + c.ZFlag * 16384
              + c.CFlag * 8192 + c.VFlag * 4096,
          c.Cpsr[2] + (c.TFlag - BIT(c.Cpsr, 5)) * 32>>]

\* SAVE_NZCVT: (Cpsr & 0x0fffffdf) | N << 31 | Z << 30 | C << 29 | V << 28 | T << 5
SAVE_NZCVT(c) ==
    [c EXCEPT !.Cpsr =
        <<(c.Cpsr[1] % 4096) + c.NFlag * 32768 + c.ZFlag * 16384
              + c.CFlag * 8192 + c.VFlag * 4096,
          c.Cpsr[2] + (c.TFlag - BIT(c.Cpsr, 5)) * 32>>]

LOAD_NZCVT(c) ==
    [c EXCEPT !.NFlag = BIT(c.Cpsr, 31), !.ZFlag = BIT(c.Cpsr, 30),
              !.CFlag = BIT(c.Cpsr, 29), !.VFlag = BIT(c.Cpsr, 28),
              !.TFlag = BIT(c.Cpsr, 5)]

CurrentModeHasSPSR(c) == c.Mode # SYSTEM32MODE /\ c.Mode # USER32MODE

UPDATE_NFLAG(c, dst) == [c EXCEPT !.NFlag = BIT(dst, 31)]
\* UPDATE_ZFLAG with `dst ? 1 : 0`
UPDATE_ZFLAG_nonzero(c, dst) == [c EXCEPT !.ZFlag = IF dst = ZERO THEN 0 ELSE 1]

UPDATE_ZFLAG(c, dst) == [c EXCEPT !.ZFlag = IF dst = ZERO THEN 1 ELSE 0]
UPDATE_CFLAG_WITH_SC(c) == [c EXCEPT !.CFlag = c.shifter_carry_out]

\* what a handler leaves behind: the CPU state, the memory, and where it goes
\*   FETCH     cpu->Reg[15] += GetInstructionSize(); INC_PC; FETCH_INST; GOTO_NEXT_INST
\*   DISPATCH  INC_PC; goto DISPATCH
\*   END       goto END
\*   RETURN    return num_instrs
Fall(c, m) ==
    [cpu |-> [c EXCEPT !.Reg[15] = AddN(@, GetInstructionSize(c))], mem |-> m,
     next |-> "FETCH"]
Jump(c, m) == [cpu |-> c, mem |-> m, next |-> "DISPATCH"]

\* GOTO_NEXT_INST testing the budget with > in place of >=
GOTO_NEXT_INST_late(c) ==
    IF num_instrs > c.NumInstrsToExecute
    THEN pc' = "END" /\ num_instrs' = num_instrs
    ELSE pc' = "EXEC" /\ num_instrs' = num_instrs + 1

\* GOTO_NEXT_INST testing the IRQ line before every instruction
GOTO_NEXT_INST_irq(c) ==
    IF num_instrs >= c.NumInstrsToExecute \/ (c.NirqSig = 0 /\ BIT(c.Cpsr, 7) = 0)
    THEN pc' = "END" /\ num_instrs' = num_instrs
    ELSE pc' = "EXEC" /\ num_instrs' = num_instrs + 1

\* GOTO_NEXT_INST: out of budget goes to END, else count and dispatch on idx
GOTO_NEXT_INST(c) ==
    IF num_instrs >= c.NumInstrsToExecute
    THEN pc' = "END" /\ num_instrs' = num_instrs
    ELSE pc' = "EXEC" /\ num_instrs' = num_instrs + 1

\* the record inst_base points at
Rec == inst_buf[inst_base]

\* the address an exclusive access of record rec names in state c
AddressOf(c, rec) == IF "Rn" \in DOMAIN rec THEN c.Reg[rec.Rn] ELSE NoAddress

\* the address of the latest store-exclusive that succeeded with no LDREX
\* after it, once record rec has run on state c
Stored(c, rec, stored) ==
    IF rec.idx = "ldrex" /\ Passes(c, rec) THEN NoAddress
    ELSE IF rec.idx \in {"strex", "strexb", "strexd", "strexh"} /\ Passes(c, rec)
            /\ IsExclusiveMemoryAccess(c, c.Reg[rec.Rn])
    THEN c.Reg[rec.Rn]
    ELSE stored

\* no handler has run yet in this call
NoLast(e) ==
    [idx |-> "none", rec |-> <<>>, cpu |-> e.cpu, mem |-> e.mem, passed |-> TRUE,
     prev |-> [idx |-> "none", passed |-> TRUE, addr |-> NoAddress], stored |-> NoAddress,
     svc |-> <<>>]

\* InstLabel[idx]: GOTO_NEXT_INST left inst_base at a record of that idx
InstLabel(idx) ==
    /\ pc = "EXEC"
    /\ inst_base \in DOMAIN inst_buf
    /\ Rec.idx = idx

\* The frame of one handler: r is what its body does, payload is the size
\* of the struct its INC_PC steps over.
Handler(payload, r) ==
    /\ cpu' = (IF r.next = "RETURN" THEN [r.cpu EXCEPT !.NumInstrsToExecute = 0] ELSE r.cpu)
    /\ mem' = r.mem
    /\ ptr' = (IF r.next \in {"FETCH", "DISPATCH"} THEN ptr + sizeof_arm_inst + payload ELSE ptr)
    /\ last' = [idx |-> Rec.idx, rec |-> Rec, cpu |-> cpu, mem |-> mem,
                passed |-> Passes(cpu, Rec),
                prev |-> [idx |-> last.idx, passed |-> last.passed,
                          addr |-> AddressOf(last.cpu, last.rec)],
                stored |-> Stored(cpu, Rec, last.stored),
                svc |-> IF "svc" \in DOMAIN r THEN r.svc ELSE <<>>]
    /\ dispatched' = dispatched + 1
    /\ CASE r.next = "FETCH" ->
              IF Rec.br # NON_BRANCH
              THEN pc' = "DISPATCH" /\ UNCHANGED <<inst_base, num_instrs, ret>>
              ELSE /\ inst_base' = ptr'
                   /\ GOTO_NEXT_INST(r.cpu)
                   /\ ret' = ret
         [] r.next = "DISPATCH" -> pc' = "DISPATCH" /\ UNCHANGED <<inst_base, num_instrs, ret>>
         [] r.next = "END" -> pc' = "END" /\ UNCHANGED <<inst_base, num_instrs, ret>>
         [] r.next = "RETURN" ->
              pc' = "DONE" /\ ret' = num_instrs /\ UNCHANGED <<inst_base, num_instrs>>
    /\ first' = (IF r.next = "RETURN" /\ call = 1
                 THEN [cpu |-> cpu', mem |-> mem', ret |-> num_instrs] ELSE first)
    /\ UNCHANGED <<inst_buf, top, instruction_cache, call, entry>>

\* a return of InterpreterMainLoop: the value, and what the first call left
Return(n) ==
    /\ pc' = "DONE"
    /\ ret' = n
    /\ first' = (IF call = 1 THEN [cpu |-> cpu', mem |-> mem', ret |-> n] ELSE first)

----------------------------------------------------------------------------
(* InterpreterMainLoop: entry, DISPATCH, END                               *)

\* unsigned int num_instrs = 0; LOAD_NZCVT;
Enter ==
    /\ pc = "ENTRY"
    /\ cpu' = LOAD_NZCVT(cpu)
    /\ num_instrs' = 0
    /\ pc' = "DISPATCH"
    /\ UNCHANGED <<mem, inst_buf, top, instruction_cache, ptr, inst_base, ret, call,
                   entry, first, last, dispatched, sticky>>

\* the block InterpreterTranslate built becomes the one to run
Translated(t) ==
    /\ ptr' = t.bb_start
    /\ inst_buf' = t.inst_buf
    /\ top' = t.top
    /\ instruction_cache' = t.instruction_cache

\* InterpreterTranslate's local idx starts uninitialised: any entry of the
\* table.  t is the block for one of them; idx is read before it is written
\* only when a word fails to decode, so a block with no failure is the block
\* for every idx.
NewBlock(c, t) ==
    IF t.failed
    THEN \E u \in {InterpreterTranslate(c, mem, inst_buf, top, instruction_cache,
                                         c.Reg[15], idx) : idx \in TableIdx} :
           Translated(u)
    ELSE Translated(t)

\* FindBlock going from a block found in the cache straight to the handler
\* of its first record, without GOTO_NEXT_INST
FindBlock_uncounted(c) ==
    /\ cpu' = c
    /\ IF c.Reg[15] \in DOMAIN instruction_cache
       THEN /\ ptr' = instruction_cache[c.Reg[15]]
            /\ pc' = "EXEC"
            /\ UNCHANGED <<inst_buf, top, instruction_cache, num_instrs>>
       ELSE /\ \E t \in {InterpreterTranslate(c, mem, inst_buf, top, instruction_cache,
                                             c.Reg[15], "adc")} : NewBlock(c, t)
            /\ GOTO_NEXT_INST(c)
    /\ inst_base' = ptr'

\* the second half of DISPATCH, with Reg[15] aligned in c: the block cache
\* lookup or the translation of a new block, then GOTO_NEXT_INST on the
\* block's first record
\* A record written past the end of inst_buf is undefined behaviour: the
\* bytes land in whatever follows the array and the run goes on, or the
\* write faults and the process ends.
FindBlock(c) ==
    /\ cpu' = c
    /\ IF c.Reg[15] \in DOMAIN instruction_cache
       THEN /\ ptr' = instruction_cache[c.Reg[15]]
            /\ UNCHANGED <<inst_buf, top, instruction_cache>>
       ELSE \E t \in {InterpreterTranslate(c, mem, inst_buf, top, instruction_cache,
                                          c.Reg[15], "adc")} : NewBlock(c, t)
    /\ inst_base' = ptr'
    /\ \/ GOTO_NEXT_INST(c)
       \/ /\ top' # top
          /\ top' > CACHE_BUFFER_SIZE
          /\ pc' = "FAULT"
          /\ num_instrs' = num_instrs

\* DISPATCH testing the IRQ line alone, without the I bit of the CPSR
DISPATCH_unmasked ==
    /\ pc = "DISPATCH"
    /\ IF cpu.NirqSig = 0
       THEN /\ pc' = "END"
            /\ UNCHANGED <<cpu, inst_buf, top, instruction_cache, ptr, inst_base, num_instrs>>
       ELSE \E c \in {[cpu EXCEPT !.Reg[15] = IF cpu.TFlag = 1 THEN AlignHalf(@)
                                                 ELSE AlignWord(@)]} : FindBlock(c)
    /\ UNCHANGED <<mem, ret, call, entry, first, last, dispatched, sticky>>

\* DISPATCH: the IRQ test, the alignment of R15, then the block
DISPATCH ==
    /\ pc = "DISPATCH"
    /\ IF cpu.NirqSig = 0 /\ BIT(cpu.Cpsr, 7) = 0
       THEN /\ pc' = "END"
            /\ UNCHANGED <<cpu, inst_buf, top, instruction_cache, ptr, inst_base, num_instrs>>
       ELSE \E c \in {[cpu EXCEPT !.Reg[15] = IF cpu.TFlag = 1 THEN AlignHalf(@)
                                                 ELSE AlignWord(@)]} : FindBlock(c)
    /\ UNCHANGED <<mem, ret, call, entry, first, last, dispatched, sticky>>

\* END without `cpu->NumInstrsToExecute = 0`
END_keeps ==
    /\ pc = "END"
    /\ cpu' = SAVE_NZCVT(cpu)
    /\ UNCHANGED <<mem, inst_buf, top, instruction_cache, ptr, inst_base, num_instrs,
                   call, entry, last, dispatched, sticky>>
    /\ Return(num_instrs)

\* END: SAVE_NZCVT; cpu->NumInstrsToExecute = 0; return num_instrs;
END ==
    /\ pc = "END"
    /\ cpu' = [SAVE_NZCVT(cpu) EXCEPT !.NumInstrsToExecute = 0]
    /\ UNCHANGED <<mem, inst_buf, top, instruction_cache, ptr, inst_base, num_instrs,
                   call, entry, last, dispatched, sticky>>
    /\ Return(num_instrs)

\* the host calls InterpreterMainLoop again from the state and the memory the
\* first call started from; the arena and the block cache are what they are
Replay ==
    /\ pc = "DONE"
    /\ call = 1
    /\ cpu' = entry.cpu
    /\ mem' = entry.mem
    /\ pc' = "ENTRY"
    /\ call' = 2
    /\ last' = NoLast(entry)
    /\ dispatched' = 0
    /\ sticky' = "no"
    /\ UNCHANGED <<inst_buf, top, instruction_cache, ptr, inst_base, num_instrs, ret,
                   entry, first>>

----------------------------------------------------------------------------
(* Data-processing handlers                                                *)

\* RN, plus two instruction sizes when Rn is R15
RnValue(c, rec) ==
    IF rec.Rn = 15 THEN AddN(c.Reg[15], 2 * GetInstructionSize(c)) ELSE c.Reg[rec.Rn]

\* RD = v, after SHIFTER_OPERAND left its carry in shifter_carry_out
WriteRd(c, rec, so, v) ==
    [c EXCEPT !.shifter_carry_out = so.sco, !.Reg[rec.Rd] = v]

\* cpu->Cpsr = cpu->Spsr_copy; ChangePrivilegeMode(Cpsr & 0x1F); LOAD_NZCVT;
SpsrToCpsr(c) ==
    LOAD_NZCVT(ChangePrivilegeMode([c EXCEPT !.Cpsr = c.Spsr_copy],
                                   BITS(c.Spsr_copy, 0, 4)))

\* the write of RD, the S-bit part and the exit of ADC, ADD, RSB, RSC, SBC,
\* SUB: with S and Rd = 15 the CPSR comes from the SPSR (if the mode has one),
\* with S the flags come from RD and from AddWithCarry; Rd = 15 goes to DISPATCH
ArithTail(c, rec, m, so, r) ==
    LET c0 == WriteRd(c, rec, so, r.result)
        c1 == IF rec.S = 1 /\ rec.Rd = 15
              THEN IF CurrentModeHasSPSR(c0) THEN SpsrToCpsr(c0) ELSE c0
              ELSE IF rec.S = 1
              THEN [UPDATE_ZFLAG(UPDATE_NFLAG(c0, c0.Reg[rec.Rd]), c0.Reg[rec.Rd])
                      EXCEPT !.CFlag = r.carry, !.VFlag = r.overflow]
              ELSE c0
    IN  IF rec.Rd = 15 THEN Jump(c1, m) ELSE Fall(c1, m)

\* the same for AND, BIC, EOR, MOV, MVN, ORR: C comes from the shifter
LogicTail(c, rec, m, so, v) ==
    LET c0 == WriteRd(c, rec, so, v)
        c1 == IF rec.S = 1 /\ rec.Rd = 15
              THEN IF CurrentModeHasSPSR(c0) THEN SpsrToCpsr(c0) ELSE c0
              ELSE IF rec.S = 1
              THEN UPDATE_CFLAG_WITH_SC(
                       UPDATE_ZFLAG(UPDATE_NFLAG(c0, c0.Reg[rec.Rd]), c0.Reg[rec.Rd]))
              ELSE c0
    IN  IF rec.Rd = 15 THEN Jump(c1, m) ELSE Fall(c1, m)

\* CMN, CMP: the flags from AddWithCarry, no register written
CompareTail(c, m, so, r) ==
    Fall([UPDATE_ZFLAG(UPDATE_NFLAG(c, r.result), r.result)
            EXCEPT !.shifter_carry_out = so.sco, !.CFlag = r.carry, !.VFlag = r.overflow], m)

\* TEQ, TST: N and Z from the result, C from the shifter
TestTail(c, m, so, v) ==
    Fall(UPDATE_CFLAG_WITH_SC(
             UPDATE_ZFLAG(UPDATE_NFLAG([c EXCEPT !.shifter_carry_out = so.sco], v), v)), m)

\* the CPSR is restored from the SPSR by this record on this state
Restores(c, rec) ==
    /\ Passes(c, rec)
    /\ CurrentModeHasSPSR(c)
    /\ IF rec.idx = "ldm" THEN BIT(rec.inst, 22) = 1 /\ BIT(rec.inst, 15) = 1
       ELSE rec.S = 1 /\ rec.Rd = 15

\* sticky after a return that took the CPSR from the SPSR or from memory
AfterReturn(s) == IF s = "no" THEN "no" ELSE "returned"

\* the bodies of the handlers under `if (cond == 0xE || CondPassed(...))`;
\* so is what SHIFTER_OPERAND returned
ADC(c, rec, m, so) == ArithTail(c, rec, m, so, AddWithCarry(RnValue(c, rec), so.so, c.CFlag))
ADD(c, rec, m, so) == ArithTail(c, rec, m, so, AddWithCarry(RnValue(c, rec), so.so, 0))
RSB(c, rec, m, so) == ArithTail(c, rec, m, so, AddWithCarry(Not32(RnValue(c, rec)), so.so, 1))
RSC(c, rec, m, so) ==
    ArithTail(c, rec, m, so, AddWithCarry(Not32(RnValue(c, rec)), so.so, c.CFlag))
SBC(c, rec, m, so) ==
    ArithTail(c, rec, m, so, AddWithCarry(RnValue(c, rec), Not32(so.so), c.CFlag))
\* SUB with carry-in 0
SUB_borrowed(c, rec, m, so) ==
    ArithTail(c, rec, m, so, AddWithCarry(RnValue(c, rec), Not32(so.so), 0))

SUB(c, rec, m, so) == ArithTail(c, rec, m, so, AddWithCarry(RnValue(c, rec), Not32(so.so), 1))
CMN(c, rec, m, so) == CompareTail(c, m, so, AddWithCarry(RnValue(c, rec), so.so, 0))
CMP(c, rec, m, so) == CompareTail(c, m, so, AddWithCarry(RnValue(c, rec), Not32(so.so), 1))
AND(c, rec, m, so) == LogicTail(c, rec, m, so, And32(RnValue(c, rec), so.so))
BIC(c, rec, m, so) == LogicTail(c, rec, m, so, And32(RnValue(c, rec), Not32(so.so)))
EOR(c, rec, m, so) == LogicTail(c, rec, m, so, Xor32(RnValue(c, rec), so.so))
ORR(c, rec, m, so) == LogicTail(c, rec, m, so, Or32(RnValue(c, rec), so.so))
MOV(c, rec, m, so) == LogicTail(c, rec, m, so, so.so)
MVN(c, rec, m, so) == LogicTail(c, rec, m, so, Not32(so.so))
TEQ(c, rec, m, so) == TestTail(c, m, so, Xor32(RnValue(c, rec), so.so))
TST(c, rec, m, so) == TestTail(c, m, so, And32(RnValue(c, rec), so.so))

ADC_INST ==
    /\ InstLabel("adc")
    /\ sticky' = (IF Restores(cpu, Rec) THEN AfterReturn(sticky) ELSE sticky)
    /\ \E r \in {
                 IF Passes(cpu, Rec) THEN ADC(cpu, Rec, mem, SHIFTER_OPERAND(cpu, Rec))
                 ELSE Fall(cpu, mem)} :
         Handler(sizeof("adc_inst"), r)

ADD_INST ==
    /\ InstLabel("add")
    /\ sticky' = (IF Restores(cpu, Rec) THEN AfterReturn(sticky) ELSE sticky)
    /\ \E r \in {
                 IF Passes(cpu, Rec) THEN ADD(cpu, Rec, mem, SHIFTER_OPERAND(cpu, Rec))
                 ELSE Fall(cpu, mem)} :
         Handler(sizeof("add_inst"), r)

AND_INST ==
    /\ InstLabel("and")
    /\ sticky' = (IF Restores(cpu, Rec) THEN AfterReturn(sticky) ELSE sticky)
    /\ \E r \in {
                 IF Passes(cpu, Rec) THEN AND(cpu, Rec, mem, SHIFTER_OPERAND(cpu, Rec))
                 ELSE Fall(cpu, mem)} :
         Handler(sizeof("and_inst"), r)

BIC_INST ==
    /\ InstLabel("bic")
    /\ sticky' = (IF Restores(cpu, Rec) THEN AfterReturn(sticky) ELSE sticky)
    /\ \E r \in {
                 IF Passes(cpu, Rec) THEN BIC(cpu, Rec, mem, SHIFTER_OPERAND(cpu, Rec))
                 ELSE Fall(cpu, mem)} :
         Handler(sizeof("bic_inst"), r)

CMN_INST ==
    /\ InstLabel("cmn")
    /\ sticky' = sticky
    /\ \E r \in {
                 IF Passes(cpu, Rec) THEN CMN(cpu, Rec, mem, SHIFTER_OPERAND(cpu, Rec))
                 ELSE Fall(cpu, mem)} :
         Handler(sizeof("cmn_inst"), r)

CMP_INST ==
    /\ InstLabel("cmp")
    /\ sticky' = sticky
    /\ \E r \in {
                 IF Passes(cpu, Rec) THEN CMP(cpu, Rec, mem, SHIFTER_OPERAND(cpu, Rec))
                 ELSE Fall(cpu, mem)} :
         Handler(sizeof("cmp_inst"), r)

EOR_INST ==
    /\ InstLabel("eor")
    /\ sticky' = (IF Restores(cpu, Rec) THEN AfterReturn(sticky) ELSE sticky)
    /\ \E r \in {
                 IF Passes(cpu, Rec) THEN EOR(cpu, Rec, mem, SHIFTER_OPERAND(cpu, Rec))
                 ELSE Fall(cpu, mem)} :
         Handler(sizeof("eor_inst"), r)

MOV_INST ==
    /\ InstLabel("mov")
    /\ sticky' = (IF Restores(cpu, Rec) THEN AfterReturn(sticky) ELSE sticky)
    /\ \E r \in {
                 IF Passes(cpu, Rec) THEN MOV(cpu, Rec, mem, SHIFTER_OPERAND(cpu, Rec))
                 ELSE Fall(cpu, mem)} :
         Handler(sizeof("mov_inst"), r)

MVN_INST ==
    /\ InstLabel("mvn")
    /\ sticky' = (IF Restores(cpu, Rec) THEN AfterReturn(sticky) ELSE sticky)
    /\ \E r \in {
                 IF Passes(cpu, Rec) THEN MVN(cpu, Rec, mem, SHIFTER_OPERAND(cpu, Rec))
                 ELSE Fall(cpu, mem)} :
         Handler(sizeof("mvn_inst"), r)

ORR_INST ==
    /\ InstLabel("orr")
    /\ sticky' = (IF Restores(cpu, Rec) THEN AfterReturn(sticky) ELSE sticky)
    /\ \E r \in {
                 IF Passes(cpu, Rec) THEN ORR(cpu, Rec, mem, SHIFTER_OPERAND(cpu, Rec))
                 ELSE Fall(cpu, mem)} :
         Handler(sizeof("orr_inst"), r)

RSB_INST ==
    /\ InstLabel("rsb")
    /\ sticky' = (IF Restores(cpu, Rec) THEN AfterReturn(sticky) ELSE sticky)
    /\ \E r \in {
                 IF Passes(cpu, Rec) THEN RSB(cpu, Rec, mem, SHIFTER_OPERAND(cpu, Rec))
                 ELSE Fall(cpu, mem)} :
         Handler(sizeof("rsb_inst"), r)

RSC_INST ==
    /\ InstLabel("rsc")
    /\ sticky' = (IF Restores(cpu, Rec) THEN AfterReturn(sticky) ELSE sticky)
    /\ \E r \in {
                 IF Passes(cpu, Rec) THEN RSC(cpu, Rec, mem, SHIFTER_OPERAND(cpu, Rec))
                 ELSE Fall(cpu, mem)} :
         Handler(sizeof("rsc_inst"), r)

SBC_INST ==
    /\ InstLabel("sbc")
    /\ sticky' = (IF Restores(cpu, Rec) THEN AfterReturn(sticky) ELSE sticky)
    /\ \E r \in {
                 IF Passes(cpu, Rec) THEN SBC(cpu, Rec, mem, SHIFTER_OPERAND(cpu, Rec))
                 ELSE Fall(cpu, mem)} :
         Handler(sizeof("sbc_inst"), r)

SUB_INST ==
    /\ InstLabel("sub")
    /\ sticky' = (IF Restores(cpu, Rec) THEN AfterReturn(sticky) ELSE sticky)
    /\ \E r \in {
                 IF Passes(cpu, Rec) THEN SUB(cpu, Rec, mem, SHIFTER_OPERAND(cpu, Rec))
                 ELSE Fall(cpu, mem)} :
         Handler(sizeof("sub_inst"), r)

TEQ_INST ==
    /\ InstLabel("teq")
    /\ sticky' = sticky
    /\ \E r \in {
                 IF Passes(cpu, Rec) THEN TEQ(cpu, Rec, mem, SHIFTER_OPERAND(cpu, Rec))
                 ELSE Fall(cpu, mem)} :
         Handler(sizeof("teq_inst"), r)

TST_INST ==
    /\ InstLabel("tst")
    /\ sticky' = sticky
    /\ \E r \in {
                 IF Passes(cpu, Rec) THEN TST(cpu, Rec, mem, SHIFTER_OPERAND(cpu, Rec))
                 ELSE Fall(cpu, mem)} :
         Handler(sizeof("tst_inst"), r)

\* the body of BBL_INST: LINK_RTN_ADDR; SET_PC
BBL(c, rec, m) ==
    LET c1 == IF rec.L = 1 THEN [c EXCEPT !.Reg[14] = AddN(c.Reg[15], 4)] ELSE c
    IN  Jump([c1 EXCEPT !.Reg[15] = Add32(AddN(c.Reg[15], 8), rec.signed_immed_24)], m)

\* BBL_INST: both ways go to DISPATCH
BBL_INST ==
    /\ InstLabel("bbl")
    /\ sticky' = sticky
    /\ \E r \in {
                 IF Passes(cpu, Rec) THEN BBL(cpu, Rec, mem)
                 ELSE Jump([cpu EXCEPT !.Reg[15] = AddN(@, GetInstructionSize(cpu))], mem)} :
         Handler(sizeof("bbl_inst"), r)

----------------------------------------------------------------------------
(* Addressing functions (get_addr) and the load/store handlers             *)

\* the number of registers in a register list
RECURSIVE Count(_)
Count(list) == IF list = 0 THEN 0 ELSE (list % 2) + Count(list \div 2)

\* Rn moved by n bytes up (U_BIT) or down
Offset(base, inst, n) ==
    IF BIT(inst, 23) = 1 THEN Add32(base, n) ELSE Sub32(base, n)

LnSWoUB_ImmediateOffset(c, inst) ==
    [cpu  |-> c,
     addr |-> Offset(CHECK_READ_REG15_WA(c, BITS(inst, 16, 19)), inst, U(BITS(inst, 0, 11)))]

LnSWoUB_RegisterOffset(c, inst) ==
    [cpu  |-> c,
     addr |-> Offset(CHECK_READ_REG15_WA(c, BITS(inst, 16, 19)), inst,
                     CHECK_READ_REG15_WA(c, BITS(inst, 0, 3)))]

\* the base register moves whatever the condition says
LnSWoUB_ImmediatePostIndexed(c, inst) ==
    [cpu  |-> [c EXCEPT !.Reg[BITS(inst, 16, 19)] = Offset(@, inst, U(BITS(inst, 0, 11)))],
     addr |-> CHECK_READ_REG15_WA(c, BITS(inst, 16, 19))]

LnSWoUB_ImmediatePreIndexed(c, inst) ==
    [cpu  |-> IF CondPassed(c, BITS(inst, 28, 31))
              THEN [c EXCEPT !.Reg[BITS(inst, 16, 19)] =
                        Offset(CHECK_READ_REG15_WA(c, BITS(inst, 16, 19)), inst,
                               U(BITS(inst, 0, 11)))]
              ELSE c,
     addr |-> Offset(CHECK_READ_REG15_WA(c, BITS(inst, 16, 19)), inst, U(BITS(inst, 0, 11)))]

\* the pre-indexed forms with the offset n: Rn takes the address when the
\* condition passes
PreIndexed(c, inst, n) ==
    LET addr == Offset(CHECK_READ_REG15_WA(c, BITS(inst, 16, 19)), inst, n)
    IN  [cpu  |-> IF CondPassed(c, BITS(inst, 28, 31))
                  THEN [c EXCEPT !.Reg[BITS(inst, 16, 19)] = addr]
                  ELSE c,
         addr |-> addr]

\* the post-indexed forms with the offset n that test the condition: the
\* address is Rn, and Rn moves by n when the condition passes
PostIndexed(c, inst, n) ==
    [cpu  |-> IF CondPassed(c, BITS(inst, 28, 31))
              THEN [c EXCEPT !.Reg[BITS(inst, 16, 19)] = Offset(@, inst, n)]
              ELSE c,
     addr |-> CHECK_READ_REG15_WA(c, BITS(inst, 16, 19))]

\* index of the scaled-register forms: Rm shifted by shift_imm
ScaledIndex(c, inst) ==
    LET shift     == BITS(inst, 5, 6)
        shift_imm == BITS(inst, 7, 11)
        rm        == CHECK_READ_REG15_WA(c, BITS(inst, 0, 3))
    IN  CASE shift = 0 -> Shl32(rm, shift_imm)
          [] shift = 1 -> IF shift_imm = 0 THEN ZERO ELSE Shr32(rm, shift_imm)
          [] shift = 2 -> IF shift_imm = 0
                          THEN (IF BIT(rm, 31) = 1 THEN ONES ELSE ZERO)
                          ELSE Asr32(rm, shift_imm)
          [] shift = 3 -> IF shift_imm = 0
                          THEN WithBit(Shr32(rm, 1), 31, c.CFlag)
                          ELSE ROTATE_RIGHT_32(rm, shift_imm)

\* offset_8 = (immedH << 4) | immedL
offset_8(inst) == U(BITS(inst, 8, 11) * 16 + BITS(inst, 0, 3))

LnSWoUB_ScaledRegisterOffset(c, inst) ==
    [cpu  |-> c,
     addr |-> Offset(CHECK_READ_REG15_WA(c, BITS(inst, 16, 19)), inst, ScaledIndex(c, inst))]

LnSWoUB_RegisterPreIndexed(c, inst) ==
    PreIndexed(c, inst, CHECK_READ_REG15_WA(c, BITS(inst, 0, 3)))

LnSWoUB_ScaledRegisterPreIndexed(c, inst) == PreIndexed(c, inst, ScaledIndex(c, inst))

LnSWoUB_RegisterPostIndexed(c, inst) ==
    PostIndexed(c, inst, CHECK_READ_REG15_WA(c, BITS(inst, 0, 3)))

LnSWoUB_ScaledRegisterPostIndexed(c, inst) == PostIndexed(c, inst, ScaledIndex(c, inst))

MLnS_ImmediateOffset(c, inst) ==
    [cpu  |-> c,
     addr |-> Offset(CHECK_READ_REG15_WA(c, BITS(inst, 16, 19)), inst, offset_8(inst))]

MLnS_RegisterOffset(c, inst) ==
    [cpu  |-> c,
     addr |-> Offset(CHECK_READ_REG15_WA(c, BITS(inst, 16, 19)), inst,
                     CHECK_READ_REG15_WA(c, BITS(inst, 0, 3)))]

MLnS_ImmediatePreIndexed(c, inst) == PreIndexed(c, inst, offset_8(inst))

MLnS_RegisterPreIndexed(c, inst) ==
    PreIndexed(c, inst, CHECK_READ_REG15_WA(c, BITS(inst, 0, 3)))

\* rn is CHECK_READ_REG15_WA(Rn) here, and Rn takes rn moved by offset_8
MLnS_ImmediatePostIndexed(c, inst) ==
    LET rn == CHECK_READ_REG15_WA(c, BITS(inst, 16, 19))
    IN  [cpu  |-> IF CondPassed(c, BITS(inst, 28, 31))
                  THEN [c EXCEPT !.Reg[BITS(inst, 16, 19)] = Offset(rn, inst, offset_8(inst))]
                  ELSE c,
         addr |-> rn]

MLnS_RegisterPostIndexed(c, inst) ==
    PostIndexed(c, inst, CHECK_READ_REG15_WA(c, BITS(inst, 0, 3)))

\* LdnStM: the start address start, and Rn moved by delta on W with a
\* passing condition
LdnStM(c, inst, start, delta) ==
    [cpu  |-> IF CondPassed(c, BITS(inst, 28, 31)) /\ BIT(inst, 21) = 1
              THEN [c EXCEPT !.Reg[BITS(inst, 16, 19)] = Add32(@, delta)]
              ELSE c,
     addr |-> start]

LdnStM_IncrementAfter(c, inst) ==
    LdnStM(c, inst, CHECK_READ_REG15_WA(c, BITS(inst, 16, 19)),
           U(4 * Count(BITS(inst, 0, 15))))

LdnStM_IncrementBefore(c, inst) ==
    LdnStM(c, inst, AddN(CHECK_READ_REG15_WA(c, BITS(inst, 16, 19)), 4),
           U(4 * Count(BITS(inst, 0, 15))))

LdnStM_DecrementAfter(c, inst) ==
    LdnStM(c, inst,
           AddN(Sub32(CHECK_READ_REG15_WA(c, BITS(inst, 16, 19)),
                      U(4 * Count(BITS(inst, 0, 15)))), 4),
           Sub32(ZERO, U(4 * Count(BITS(inst, 0, 15)))))

LdnStM_DecrementBefore(c, inst) ==
    LdnStM(c, inst,
           Sub32(CHECK_READ_REG15_WA(c, BITS(inst, 16, 19)), U(4 * Count(BITS(inst, 0, 15)))),
           Sub32(ZERO, U(4 * Count(BITS(inst, 0, 15)))))

\* inst_cream->get_addr(cpu, inst_cream->inst, addr)
get_addr(c, rec) ==
    CASE rec.get_addr = "LnSWoUB_ImmediateOffset" -> LnSWoUB_ImmediateOffset(c, rec.inst)
      [] rec.get_addr = "LnSWoUB_RegisterOffset" -> LnSWoUB_RegisterOffset(c, rec.inst)
      [] rec.get_addr = "LnSWoUB_ImmediatePreIndexed" ->
            LnSWoUB_ImmediatePreIndexed(c, rec.inst)
      [] rec.get_addr = "LnSWoUB_ImmediatePostIndexed" ->
            LnSWoUB_ImmediatePostIndexed(c, rec.inst)
      [] rec.get_addr = "LnSWoUB_ScaledRegisterOffset" ->
            LnSWoUB_ScaledRegisterOffset(c, rec.inst)
      [] rec.get_addr = "LnSWoUB_RegisterPreIndexed" ->
            LnSWoUB_RegisterPreIndexed(c, rec.inst)
      [] rec.get_addr = "LnSWoUB_ScaledRegisterPreIndexed" ->
            LnSWoUB_ScaledRegisterPreIndexed(c, rec.inst)
      [] rec.get_addr = "LnSWoUB_RegisterPostIndexed" ->
            LnSWoUB_RegisterPostIndexed(c, rec.inst)
      [] rec.get_addr = "LnSWoUB_ScaledRegisterPostIndexed" ->
            LnSWoUB_ScaledRegisterPostIndexed(c, rec.inst)
      [] rec.get_addr = "MLnS_ImmediateOffset" -> MLnS_ImmediateOffset(c, rec.inst)
      [] rec.get_addr = "MLnS_RegisterOffset" -> MLnS_RegisterOffset(c, rec.inst)
      [] rec.get_addr = "MLnS_ImmediatePreIndexed" -> MLnS_ImmediatePreIndexed(c, rec.inst)
      [] rec.get_addr = "MLnS_RegisterPreIndexed" -> MLnS_RegisterPreIndexed(c, rec.inst)
      [] rec.get_addr = "MLnS_ImmediatePostIndexed" -> MLnS_ImmediatePostIndexed(c, rec.inst)
      [] rec.get_addr = "MLnS_RegisterPostIndexed" -> MLnS_RegisterPostIndexed(c, rec.inst)
      [] rec.get_addr = "LdnStM_IncrementAfter" -> LdnStM_IncrementAfter(c, rec.inst)
      [] rec.get_addr = "LdnStM_IncrementBefore" -> LdnStM_IncrementBefore(c, rec.inst)
      [] rec.get_addr = "LdnStM_DecrementAfter" -> LdnStM_DecrementAfter(c, rec.inst)
      [] rec.get_addr = "LdnStM_DecrementBefore" -> LdnStM_DecrementBefore(c, rec.inst)

\* the body of LDR_INST and LDRCOND_INST after get_addr: a is what it returned
LDR(a, rec, m) ==
    IF BITS(rec.inst, 12, 15) = 15
    THEN Jump([a.cpu EXCEPT !.TFlag = Read32(m, a.addr)[2] % 2,
                            !.Reg[15] = AlignHalf(Read32(m, a.addr))], m)
    ELSE Fall([a.cpu EXCEPT !.Reg[BITS(rec.inst, 12, 15)] = Read32(m, a.addr)], m)

\* LDR_INST tests no condition
LDR_INST ==
    /\ InstLabel("ldr")
    /\ sticky' = sticky
    /\ \E r \in {LDR(get_addr(cpu, Rec), Rec, mem)} :
         Handler(sizeof("ldst_inst"), r)

LDRCOND_INST ==
    /\ InstLabel("ldrcond")
    /\ sticky' = sticky
    /\ \E r \in {
                 IF CondPassed(cpu, Rec.cond) THEN LDR(get_addr(cpu, Rec), Rec, mem)
                 ELSE Fall(cpu, mem)} :
         Handler(sizeof("ldst_inst"), r)

\* the body of STR_INST after get_addr
STR(a, rec, m) ==
    Fall(a.cpu, Write32(m, a.addr,
                        IF BITS(rec.inst, 12, 15) = 15
                        THEN AddN(a.cpu.Reg[15], 2 * GetInstructionSize(a.cpu))
                        ELSE a.cpu.Reg[BITS(rec.inst, 12, 15)]))

STR_INST ==
    /\ InstLabel("str")
    /\ sticky' = sticky
    /\ \E r \in {
                 IF Passes(cpu, Rec) THEN STR(get_addr(cpu, Rec), Rec, mem)
                 ELSE Fall(cpu, mem)} :
         Handler(sizeof("ldst_inst"), r)

\* for (i = from; i < to; i++) if (BIT(inst, i)) { Reg[i] = ReadMemory32(addr); addr += 4; }
RECURSIVE LoadRegisters(_, _, _, _, _, _)
LoadRegisters(c, m, inst, from, to, addr) ==
    IF from >= to THEN [cpu |-> c, addr |-> addr]
    ELSE IF BIT(inst, from) = 1
    THEN LoadRegisters([c EXCEPT !.Reg[from] = Read32(m, addr)], m, inst, from + 1, to,
                       AddN(addr, 4))
    ELSE LoadRegisters(c, m, inst, from + 1, to, addr)

\* R13 or R14 of the user bank: the register itself in user mode, Reg_usr else
LoadUserRegister(a, m, inst, r) ==
    IF BIT(inst, r) = 0 THEN a
    ELSE [cpu  |-> IF a.cpu.Mode = USER32MODE
                   THEN [a.cpu EXCEPT !.Reg[r] = Read32(m, a.addr)]
                   ELSE [a.cpu EXCEPT !.bank.usr[r - 12] = Read32(m, a.addr)],
          addr |-> AddN(a.addr, 4)]

\* LoadPC without the ARMv5T rule: the T flag stays
LoadPC_v4(a, m, inst) ==
    IF BIT(inst, 15) = 0 THEN a.cpu
    ELSE [a.cpu EXCEPT !.Reg[15] = AlignHalf(Read32(m, a.addr))]

\* LDM without the S bit: R15 loaded last, bit 0 of the value goes to T
LoadPC(a, m, inst) ==
    IF BIT(inst, 15) = 0 THEN a.cpu
    ELSE [a.cpu EXCEPT !.TFlag = Read32(m, a.addr)[2] % 2,
                       !.Reg[15] = AlignHalf(Read32(m, a.addr))]

\* LDM with the S bit and R15: the CPSR comes back from the SPSR, then R15
ReturnPC(a, m) ==
    [(IF CurrentModeHasSPSR(a.cpu) THEN SpsrToCpsr(a.cpu) ELSE a.cpu)
        EXCEPT !.Reg[15] = Read32(m, a.addr)]

\* the body of LDM_INST after get_addr
LDM(a, rec, m) ==
    LET c1 == IF BIT(rec.inst, 22) = 1 /\ BIT(rec.inst, 15) = 0
              THEN LoadUserRegister(
                       LoadUserRegister(LoadRegisters(a.cpu, m, rec.inst, 0, 13, a.addr),
                                        m, rec.inst, 13),
                       m, rec.inst, 14).cpu
              ELSE IF BIT(rec.inst, 22) = 0
              THEN LoadPC(LoadRegisters(a.cpu, m, rec.inst, 0, 15, a.addr), m, rec.inst)
              ELSE ReturnPC(LoadRegisters(a.cpu, m, rec.inst, 0, 15, a.addr), m)
    IN  IF BIT(rec.inst, 15) = 1 THEN Jump(c1, m) ELSE Fall(c1, m)

LDM_INST ==
    /\ InstLabel("ldm")
    /\ sticky' = (IF Restores(cpu, Rec) THEN AfterReturn(sticky) ELSE sticky)
    /\ \E r \in {
                 IF Passes(cpu, Rec) THEN LDM(get_addr(cpu, Rec), Rec, mem)
                 ELSE Fall(cpu, mem)} :
         Handler(sizeof("ldst_inst"), r)

\* for (i = from; i < to; i++) if (BIT(inst, i)) { WriteMemory32(addr, Reg[i]); addr += 4; }
\* where Rn stores old_RN when keep says so
RECURSIVE StoreRegisters(_, _, _, _, _, _, _, _)
StoreRegisters(c, m, inst, from, to, addr, keep, old_RN) ==
    IF from >= to THEN [mem |-> m, addr |-> addr]
    ELSE IF BIT(inst, from) = 1
    THEN StoreRegisters(c,
                        Write32(m, addr, IF keep /\ from = BITS(inst, 16, 19) THEN old_RN
                                         ELSE c.Reg[from]),
                        inst, from + 1, to, AddN(addr, 4), keep, old_RN)
    ELSE StoreRegisters(c, m, inst, from + 1, to, addr, keep, old_RN)

\* R13 or R14 of the user bank stored: the register itself in user mode,
\* Reg_usr else
StoreUserRegister(c, s, inst, r) ==
    IF BIT(inst, r) = 0 THEN s
    ELSE [mem  |-> Write32(s.mem, s.addr,
                           IF c.Mode = USER32MODE THEN c.Reg[r] ELSE c.bank.usr[r - 12]),
          addr |-> AddN(s.addr, 4)]

\* if (BIT(inst, 15)) WriteMemory32(addr, cpu->Reg_usr[1] + 8);
StorePC(c, s, inst) ==
    IF BIT(inst, 15) = 0 THEN s.mem
    ELSE Write32(s.mem, s.addr, AddN(c.bank.usr[2], 8))

\* the body of STM_INST under a passing condition: old_RN is Rn before
\* get_addr moves it
STM(c, rec, m) ==
    LET a == get_addr(c, rec)
        old_RN == c.Reg[BITS(rec.inst, 16, 19)]
    IN  Fall(a.cpu,
             IF BIT(rec.inst, 22) = 1
             THEN StorePC(a.cpu,
                          StoreUserRegister(
                              a.cpu,
                              StoreUserRegister(
                                  a.cpu,
                                  StoreRegisters(a.cpu, m, rec.inst, 0, 13, a.addr, FALSE,
                                                 old_RN),
                                  rec.inst, 13),
                              rec.inst, 14),
                          rec.inst)
             ELSE StorePC(a.cpu,
                          StoreRegisters(a.cpu, m, rec.inst, 0, 15, a.addr, TRUE, old_RN),
                          rec.inst))

STM_INST ==
    /\ InstLabel("stm")
    /\ sticky' = sticky
    /\ \E r \in {
                 IF Passes(cpu, Rec) THEN STM(cpu, Rec, mem)
                 ELSE Fall(cpu, mem)} :
         Handler(sizeof("ldst_inst"), r)

\* the body of RFE_INST after get_addr: no condition, no LOAD_NZCVT
RFE(a, m) ==
    Jump([a.cpu EXCEPT !.Cpsr = Read32(m, a.addr),
                       !.Reg[15] = Read32(m, AddN(a.addr, 4))], m)

RFE_INST ==
    /\ InstLabel("rfe")
    /\ sticky' = AfterReturn(sticky)
    /\ \E r \in {RFE(get_addr(cpu, Rec), mem)} :
         Handler(sizeof("ldst_inst"), r)

----------------------------------------------------------------------------
(* Exclusive access                                                        *)

\* LDREX without SetExclusiveMemoryAddress
LDREX_unmarked(c, rec, m) ==
    LET c1 == [c EXCEPT !.Reg[rec.Rd] = Read32(m, c.Reg[rec.Rn])]
    IN  IF rec.Rd = 15 THEN Jump(c1, m) ELSE Fall(c1, m)

LDREX(c, rec, m) ==
    LET c1 == [SetExclusiveMemoryAddress(c, c.Reg[rec.Rn])
                 EXCEPT !.Reg[rec.Rd] = Read32(m, c.Reg[rec.Rn])]
    IN  IF rec.Rd = 15 THEN Jump(c1, m) ELSE Fall(c1, m)

LDREX_INST ==
    /\ InstLabel("ldrex")
    /\ sticky' = sticky
    /\ \E r \in {
                 IF Passes(cpu, Rec) THEN LDREX(cpu, Rec, mem) ELSE Fall(cpu, mem)} :
         Handler(sizeof("generic_arm_inst"), r)

\* a store-exclusive without UnsetExclusiveMemoryAddress
StoreExclusive_keeps(c, rec, m, m1) ==
    IF IsExclusiveMemoryAccess(c, c.Reg[rec.Rn])
    THEN Fall([c EXCEPT !.Reg[rec.Rd] = ZERO], m1)
    ELSE Fall([c EXCEPT !.Reg[rec.Rd] = U(1)], m)

\* the bodies of STREX, STREXB, STREXD, STREXH: m1 is the memory after the
\* store the handler makes when the monitor holds the address
StoreExclusive(c, rec, m, m1) ==
    IF IsExclusiveMemoryAccess(c, c.Reg[rec.Rn])
    THEN Fall([UnsetExclusiveMemoryAddress(c) EXCEPT !.Reg[rec.Rd] = ZERO], m1)
    ELSE Fall([c EXCEPT !.Reg[rec.Rd] = U(1)], m)

STREX(c, rec, m) == StoreExclusive(c, rec, m, Write32(m, c.Reg[rec.Rn], c.Reg[rec.Rm]))
STREXB(c, rec, m) == StoreExclusive(c, rec, m, Write8(m, c.Reg[rec.Rn], c.Reg[rec.Rm]))
STREXH(c, rec, m) == StoreExclusive(c, rec, m, Write16(m, c.Reg[rec.Rn], c.Reg[rec.Rm]))
\* little-endian: rt at the address, rt2 in the word after it
STREXD(c, rec, m) ==
    StoreExclusive(c, rec, m,
                   Write32(Write32(m, c.Reg[rec.Rn], c.Reg[rec.Rm]),
                           AddN(c.Reg[rec.Rn], 4), c.Reg[rec.Rm + 1]))

STREX_INST ==
    /\ InstLabel("strex")
    /\ sticky' = sticky
    /\ \E r \in {
                 IF Passes(cpu, Rec) THEN STREX(cpu, Rec, mem) ELSE Fall(cpu, mem)} :
         Handler(sizeof("generic_arm_inst"), r)

STREXB_INST ==
    /\ InstLabel("strexb")
    /\ sticky' = sticky
    /\ \E r \in {
                 IF Passes(cpu, Rec) THEN STREXB(cpu, Rec, mem) ELSE Fall(cpu, mem)} :
         Handler(sizeof("generic_arm_inst"), r)

STREXD_INST ==
    /\ InstLabel("strexd")
    /\ sticky' = sticky
    /\ \E r \in {
                 IF Passes(cpu, Rec) THEN STREXD(cpu, Rec, mem) ELSE Fall(cpu, mem)} :
         Handler(sizeof("generic_arm_inst"), r)

STREXH_INST ==
    /\ InstLabel("strexh")
    /\ sticky' = sticky
    /\ \E r \in {
                 IF Passes(cpu, Rec) THEN STREXH(cpu, Rec, mem) ELSE Fall(cpu, mem)} :
         Handler(sizeof("generic_arm_inst"), r)

\* CLREX_INST tests no condition
CLREX_INST ==
    /\ InstLabel("clrex")
    /\ sticky' = sticky
    /\ \E r \in {Fall(UnsetExclusiveMemoryAddress(cpu), mem)} :
         Handler(sizeof("clrex_inst"), r)

----------------------------------------------------------------------------
(* Saturating arithmetic, status register access, and the rest             *)

\* the body of QADD_INST / QDADD_INST / QDSUB_INST / QSUB_INST (one body)
QADD(c, rec, m) ==
    Fall([c EXCEPT !.Cpsr = IF Saturates(c, rec) THEN WithBit(@, 27, 1) ELSE @,
                   !.Reg[rec.Rd] = Saturating(rec.op1, c.Reg[rec.Rm], c.Reg[rec.Rn]).result],
         m)

QADD_INST ==
    /\ pc = "EXEC"
    /\ inst_base \in DOMAIN inst_buf
    /\ Rec.idx \in {"qadd", "qdadd", "qdsub", "qsub"}
    /\ sticky' = (IF Passes(cpu, Rec) /\ Saturates(cpu, Rec) THEN "set" ELSE sticky)
    /\ \E r \in {
                 IF Passes(cpu, Rec) THEN QADD(cpu, Rec, mem) ELSE Fall(cpu, mem)} :
         Handler(sizeof("generic_arm_inst"), r)

\* MSR: the operand, the byte mask of the four field bits, and the masks
MsrOperand(c, inst) ==
    IF BIT(inst, 25) = 1
    THEN ROTATE_RIGHT_32(U(BITS(inst, 0, 7)), BITS(inst, 8, 11) * 2)
    ELSE c.Reg[BITS(inst, 0, 3)]

byte_mask(inst) ==
    <<BIT(inst, 19) * 65280 + BIT(inst, 18) * 255, BIT(inst, 17) * 65280 + BIT(inst, 16) * 255>>

UserMask_wide == <<63503, 640>>    \* 0xf80f0280: the I bit as well
UserMask == <<63503, 512>>     \* 0xf80f0200
PrivMask == <<0, 479>>         \* 0x000001df
StateMask == <<256, 32>>       \* 0x01000020

\* (x & ~mask) | (operand & mask)
Masked(x, operand, mask) == Or32(And32(x, Not32(mask)), And32(operand, mask))

\* the mask of an MSR to the CPSR
CpsrMask(c, inst, operand) ==
    IF InAPrivilegedMode(c)
    THEN IF And32(operand, StateMask) # ZERO THEN ZERO
         ELSE And32(byte_mask(inst), Or32(UserMask, PrivMask))
    ELSE And32(byte_mask(inst), UserMask)

\* SAVE_NZCVT; the write; ChangePrivilegeMode(Cpsr & 0x1F); LOAD_NZCVT
MsrCpsr(c, inst, operand) ==
    LOAD_NZCVT(ChangePrivilegeMode(
        [c EXCEPT !.Cpsr = Masked(SAVE_NZCVT(c).Cpsr, operand, CpsrMask(c, inst, operand))],
        BITS(Masked(SAVE_NZCVT(c).Cpsr, operand, CpsrMask(c, inst, operand)), 0, 4)))

MsrSpsr(c, inst, operand) ==
    IF CurrentModeHasSPSR(c)
    THEN [c EXCEPT !.Spsr_copy =
              Masked(@, operand,
                     And32(byte_mask(inst), Or32(Or32(UserMask, PrivMask), StateMask)))]
    ELSE c

MSR(c, rec, m) ==
    Fall(IF rec.R = 0 THEN MsrCpsr(c, rec.inst, MsrOperand(c, rec.inst))
         ELSE MsrSpsr(c, rec.inst, MsrOperand(c, rec.inst)), m)

MSR_INST ==
    /\ InstLabel("msr")
    /\ sticky' = (IF Passes(cpu, Rec) /\ Rec.R = 0 THEN "no" ELSE sticky)
    /\ \E r \in {
                 IF Passes(cpu, Rec) THEN MSR(cpu, Rec, mem) ELSE Fall(cpu, mem)} :
         Handler(sizeof("msr_inst"), r)

\* CPS: the A, I, F bits the instruction names take imod0; then the mode
CpsAIF(c, rec) ==
    IF rec.imod1 = 0 THEN c
    ELSE [c EXCEPT !.Cpsr =
              WithBit(WithBit(WithBit(@, 8, IF rec.A = 1 THEN rec.imod0 ELSE BIT(@, 8)),
                              7, IF rec.I = 1 THEN rec.imod0 ELSE BIT(@, 7)),
                      6, IF rec.F = 1 THEN rec.imod0 ELSE BIT(@, 6))]

CpsMode(c, rec) ==
    IF rec.mmod = 0 THEN c
    ELSE ChangePrivilegeMode([c EXCEPT !.Cpsr = <<@[1], @[2] - (@[2] % 32) + rec.mode>>],
                             rec.mode)

\* CPS_INST tests no condition, and does nothing in user mode
CPS(c, rec, m) ==
    Fall(IF InAPrivilegedMode(c) THEN CpsMode(CpsAIF(c, rec), rec) ELSE c, m)

CPS_INST ==
    /\ InstLabel("cps")
    /\ sticky' = sticky
    /\ \E r \in {CPS(cpu, Rec, mem)} :
         Handler(sizeof("cps_inst"), r)

\* NOP_INST: INC_PC_STUB
NOP_INST ==
    /\ InstLabel("nop")
    /\ sticky' = sticky
    /\ \E r \in {Fall(cpu, mem)} :
         Handler(0, r)

\* CDP_INST: the undefined instruction returns at once, without SAVE_NZCVT
CDP_INST ==
    /\ InstLabel("cdp")
    /\ sticky' = sticky
    /\ \E r \in {
                 IF Passes(cpu, Rec) THEN [cpu |-> cpu, mem |-> mem, next |-> "RETURN"]
                 ELSE Fall(cpu, mem)} :
         Handler(sizeof("cdp_inst"), r)

\* the body of BX_INST and BXJ_INST
\* address = RM, plus two instruction sizes when Rm is R15
BxAddress(c, rec) ==
    IF rec.Rm = 15 THEN AddN(c.Reg[15], 2 * GetInstructionSize(c)) ELSE c.Reg[rec.Rm]

BX(c, rec, m) ==
    Jump([c EXCEPT !.TFlag = BxAddress(c, rec)[2] % 2,
                   !.Reg[15] = AlignHalf(BxAddress(c, rec))], m)

\* BX_INST and BXJ_INST are two labels of one handler
BX_INST ==
    /\ pc = "EXEC"
    /\ inst_base \in DOMAIN inst_buf
    /\ Rec.idx \in {"bx", "bxj"}
    /\ sticky' = sticky
    /\ \E r \in {IF Passes(cpu, Rec) THEN BX(cpu, Rec, mem)
                 ELSE Jump(Fall(cpu, mem).cpu, mem)} :
         Handler(sizeof("bx_inst"), r)

\* ARMul_SignedSatQ(value, shift, &saturated) (armsupp): max = (1 << shift) - 1;
\* top = value >> shift as a signed value; top > 0 gives max, top < -1 gives
\* ~max, both with saturated set; else value and saturated clear
ARMul_SignedSatQ(value, shift) ==
    IF POS(Asr32(value, shift)) /\ Asr32(value, shift) # ZERO
    THEN [result |-> Sub32(Shl32(U(1), shift), U(1)), saturated |-> TRUE]
    ELSE IF NEG(Asr32(value, shift)) /\ Asr32(value, shift) # ONES
    THEN [result |-> Not32(Sub32(Shl32(U(1), shift), U(1))), saturated |-> TRUE]
    ELSE [result |-> value, saturated |-> FALSE]

\* SSAT_INST with the amount 0 read as 31 whatever the shift type
SSAT_asr(c, rec, m) ==
    LET amount == IF rec.imm5 = 0 THEN 31 ELSE rec.imm5
        rn_val == IF rec.shift_type = 0 THEN Shl32(c.Reg[rec.Rn], amount)
                  ELSE Asr32(c.Reg[rec.Rn], amount)
        sat    == ARMul_SignedSatQ(rn_val, rec.sat_imm)
    IN  Fall([c EXCEPT !.Cpsr = IF sat.saturated THEN WithBit(@, 27, 1) ELSE @,
                       !.Reg[rec.Rd] = sat.result],
             m)

\* the value SSAT_INST saturates: Rn shifted left by imm5, or right as a
\* signed value, where the amount 0 stands for 31
SsatOperand(c, rec) ==
    IF rec.shift_type = 0 THEN Shl32(c.Reg[rec.Rn], rec.imm5)
    ELSE Asr32(c.Reg[rec.Rn], IF rec.imm5 = 0 THEN 31 ELSE rec.imm5)

\* the body of SSAT_INST
SSAT(c, rec, m) ==
    LET sat == ARMul_SignedSatQ(SsatOperand(c, rec), rec.sat_imm)
    IN  Fall([c EXCEPT !.Cpsr = IF sat.saturated THEN WithBit(@, 27, 1) ELSE @,
                       !.Reg[rec.Rd] = sat.result],
             m)

SSAT_INST ==
    /\ InstLabel("ssat")
    /\ sticky' = (IF Passes(cpu, Rec)
                     /\ ARMul_SignedSatQ(SsatOperand(cpu, Rec), Rec.sat_imm).saturated
                  THEN "set" ELSE sticky)
    /\ \E r \in {IF Passes(cpu, Rec) THEN SSAT(cpu, Rec, mem) ELSE Fall(cpu, mem)} :
         Handler(sizeof("ssat_inst"), r)

\* the body of SWI_INST: SVC::CallSVC(inst_cream->num & 0xFFFF).  svc is the
\* list of the arguments the supervisor-call handler was invoked with; the
\* handler is outside the interpreter and none of its effects on the
\* registers is modelled.
SWI(c, rec, m) == [svc |-> <<rec.num % 65536>>] @@ Fall(c, m)

SWI_INST ==
    /\ InstLabel("swi")
    /\ sticky' = sticky
    /\ \E r \in {IF Passes(cpu, Rec) THEN SWI(cpu, Rec, mem) ELSE Fall(cpu, mem)} :
         Handler(sizeof("swi_inst"), r)

\* LDC_INST: "Instruction not implemented"; the condition is not tested and
\* the next record runs
LDC_INST ==
    /\ InstLabel("ldc")
    /\ sticky' = sticky
    /\ \E r \in {Fall(cpu, mem)} :
         Handler(sizeof("ldc_inst"), r)

\* STC_INST: the same
STC_INST ==
    /\ InstLabel("stc")
    /\ sticky' = sticky
    /\ \E r \in {Fall(cpu, mem)} :
         Handler(sizeof("stc_inst"), r)

\* B_2_THUMB: the header's cond is not looked at
B_2_THUMB ==
    /\ InstLabel("b_2_thumb")
    /\ sticky' = sticky
    /\ \E r \in {
                 Jump([cpu EXCEPT !.Reg[15] = Add32(AddN(@, 4), Rec.imm)], mem)} :
         Handler(sizeof("b_2_thumb"), r)

\* B_COND_THUMB: the condition is the one in the payload
B_COND_THUMB ==
    /\ InstLabel("b_cond_thumb")
    /\ sticky' = sticky
    /\ \E r \in {
                 Jump([cpu EXCEPT !.Reg[15] = IF CondPassed(cpu, Rec.cond_thumb)
                 THEN Add32(AddN(@, 4), Rec.imm)
                 ELSE AddN(@, 2)], mem)} :
         Handler(sizeof("b_cond_thumb"), r)

----------------------------------------------------------------------------
(* Guest programs and entry states                                         *)

\* assembler: the words of the encodings used below
DP(cond, I, opcode, S, Rn, Rd, op12) ==
    <<cond * 4096 + I * 512 + opcode * 32 + S * 16 + Rn, Rd * 4096 + op12>>
B(cond, L, off24) ==
    <<cond * 4096 + 2560 + L * 256 + (off24 \div 65536), off24 % 65536>>

LDREXw(cond, Rd, Rn) == <<cond * 4096 + 400 + Rn, Rd * 4096 + 3999>>
\* op: 0 STREX, 2 STREXD, 4 STREXB, 6 STREXH
STREXw(cond, op, Rd, Rm, Rn) == <<cond * 4096 + 384 + op * 16 + Rn, Rd * 4096 + 3984 + Rm>>
CLREXw == <<62847, 61471>>
\* op1: 0 QADD, 1 QSUB, 2 QDADD, 3 QDSUB
QADDw(cond, op1, Rd, Rm, Rn) == <<cond * 4096 + 256 + op1 * 32 + Rn, Rd * 4096 + 80 + Rm>>
MSRi(cond, R, mask, rot, imm8) == <<cond * 4096 + 800 + R * 64 + mask, 61440 + rot * 256 + imm8>>
MSRr(cond, R, mask, Rm) == <<cond * 4096 + 288 + R * 64 + mask, 61440 + Rm>>
CPSw(imod, M, aif, mode) == <<61696 + imod * 4 + M * 2, aif * 64 + mode>>
RFEw(P, Up, Wb, Rn) == <<63504 + P * 256 + Up * 128 + Wb * 32 + Rn, 2560>>
LDMw(cond, P, Up, S, Wb, Rn, list) ==
    <<cond * 4096 + 2048 + P * 256 + Up * 128 + S * 64 + Wb * 32 + 16 + Rn, list>>
\* L = 1 LDR, 0 STR
LDSTw(cond, P, Up, Wb, L, Rn, Rd, imm12) ==
    <<cond * 4096 + 1024 + P * 256 + Up * 128 + Wb * 32 + L * 16 + Rn, Rd * 4096 + imm12>>
STMw(cond, P, Up, S, Wb, Rn, list) ==
    <<cond * 4096 + 2048 + P * 256 + Up * 128 + S * 64 + Wb * 32 + Rn, list>>
CDPw(cond) == <<cond * 4096 + 3584, 0>>
NOPw(cond) == <<cond * 4096 + 800, 61440>>
\* two Thumb halfwords in a word: the first one is the low half
Thumb2(first_half, second_half) == <<second_half, first_half>>
TB(imm11) == 57344 + imm11
TBcond(cond, imm8) == 53248 + cond * 256 + imm8
\* op: 0 MOV, 1 CMP, 2 ADD, 3 SUB
TImm(op, rd, imm8) == 8192 + op * 2048 + rd * 256 + imm8
\* Thumb BX Rs and ADD Rd, PC, #imm8 * 4
TBX(Rs) == 18176 + Rs * 8
TAddPc(rd, imm8) == 40960 + rd * 256 + imm8
\* op: 1 BX, 2 BXJ
\* SSAT Rd, #(sat_imm + 1), Rn, LSL #imm5 (sh = 0) or ASR #imm5 (sh = 1)
SSATw(cond, sat_imm, Rd, imm5, sh, Rn) ==
    <<cond * 4096 + 1696 + sat_imm, Rd * 4096 + imm5 * 128 + sh * 64 + 16 + Rn>>
\* LDC (L = 1) or STC (L = 0) p14, c0, [Rn]
LDCw(cond, L, Rn) == <<cond * 4096 + 3456 + L * 16 + Rn, 3584>>
\* SWI / SVC #imm24
SWIw(cond, imm24) == <<cond * 4096 + 3840 + (imm24 \div 65536), imm24 % 65536>>
BXw(cond, op, Rm) == <<cond * 4096 + 303, 65280 + op * 16 + Rm>>

AL == 14
CodeBase == <<16, 0>>
DataBase == <<32, 0>>
Spin == B(AL, 0, 16777214)        \* B .

\* the image holding prog at CodeBase and data
Image(prog, data) ==
    [x \in {AddN(CodeBase, 4 * (i - 1)) : i \in 1..Len(prog)} |->
        prog[((x[2] - CodeBase[2]) \div 4) + 1]] @@ data

NoBank == [b \in Banks |-> <<ZERO, ZERO, ZERO>>]

\* a CPU state between two calls: the flag fields agree with the CPSR
EntryCpu(regs, cpsr, spsr, budget, nirq) ==
    LOAD_NZCVT([Reg |-> regs, Cpsr |-> cpsr, Spsr_copy |-> spsr,
                NFlag |-> 0, ZFlag |-> 0, CFlag |-> 0, VFlag |-> 0, TFlag |-> 0,
                Mode |-> BITS(cpsr, 0, 4), bank |-> NoBank, shifter_carry_out |-> 0,
                exclusive |-> NoAddress, NumInstrsToExecute |-> budget,
                NirqSig |-> nirq])

Regs0 == [r \in 0..15 |-> IF r = 15 THEN CodeBase ELSE ZERO]

\* r1 = 5, r2 = r3 = 0x7FFFFFFF, r4 = r13 = DataBase, r5 = DataBase + 8,
\* r6 = 0x80000000, r7 = 1, r8 = 0xFFFFFFFF
Regs1 ==
    [r \in 0..15 |->
        CASE r = 1 -> U(5)
          [] r \in {2, 3} -> <<32767, 65535>>
          [] r \in {4, 13} -> DataBase
          [] r = 5 -> AddN(DataBase, 8)
          [] r = 6 -> <<32768, 0>>
          [] r = 7 -> U(1)
          [] r = 8 -> ONES
          [] r = 15 -> CodeBase
          [] OTHER -> ZERO]

\* at DataBase: a status word (user mode, Q clear) and a return address, as
\* RFE and LDM read them
Data1 ==
    (DataBase :> <<0, 16>>) @@ (AddN(DataBase, 4) :> <<48, 0>>)
    @@ (AddN(DataBase, 8) :> <<4660, 22136>>)

\* the CPSR with the flags nzcv (N = 8, Z = 4, C = 2, V = 1), the I bit, the
\* T bit and the mode
Cpsr(nzcv, i, t, mode) == <<nzcv * 4096, i * 128 + t * 32 + mode>>

Entry(prog, regs, cpsr, spsr, budget, nirq, data) ==
    [cpu |-> EntryCpu(regs, cpsr, spsr, budget, nirq), mem |-> Image(prog, data)]

MaxBudget == 8

\* ADDS r0, r0, #1; CMP r0, #2; BNE loop; B .
LoopProg ==
    <<DP(AL, 1, 4, 1, 0, 0, 1), DP(AL, 1, 10, 1, 0, 0, 2), B(1, 0, 16777212), Spin>>

\* MSR CPSR_c, #0x13 (the I bit goes off); ADD r0, r0, #1; B .
UnmaskProg == <<MSRi(AL, 0, 1, 0, SVC32MODE), DP(AL, 1, 4, 0, 0, 0, 1), Spin>>

\* CPSIE i; NOP; B .
CpsProg == <<CPSw(2, 0, 2, 0), NOPw(AL), Spin>>

\* ADD r0, r0, #1; CDP; ADD r0, r0, #1; B .
CdpProg == <<DP(AL, 1, 4, 0, 0, 0, 1), CDPw(AL), DP(AL, 1, 4, 0, 0, 0, 1), Spin>>

\* the budget, the IRQ line and the I bit
LoopEntries ==
    {Entry(LoopProg, Regs0, Cpsr(0, i, 0, USER32MODE), ZERO, n, q, <<>>) :
        i \in {0, 1}, n \in 0..MaxBudget, q \in {0, 1}}
    \cup {Entry(p, Regs0, Cpsr(0, 1, 0, SVC32MODE), ZERO, n, q, <<>>) :
        p \in {UnmaskProg, CpsProg, CdpProg}, n \in 0..MaxBudget, q \in {0, 1}}

\* flags under which every condition has a passing and a failing case
SomeFlags == {0, 1, 2, 4, 6, 8, 9, 15}

\* one instruction of every kind under condition cond
Conditional(cond) ==
    {DP(cond, 1, op, 1, 1, 0, 1) : op \in 0..15}
    \cup {B(cond, l, 1) : l \in {0, 1}}
    \cup {LDSTw(cond, p[1], 1, p[2], l, 4, 0, 4) : p \in {<<1, 0>>, <<1, 1>>, <<0, 0>>},
                                                    l \in {0, 1}}
    \cup {LDMw(cond, 0, 1, s, 1, 13, 3) : s \in {0, 1}}
    \cup {LDREXw(cond, 0, 4), QADDw(cond, 0, 0, 2, 3), MSRi(cond, 0, 8, 0, 0),
          MSRr(cond, 1, 9, 1), CDPw(cond), NOPw(cond)}
    \cup {STREXw(cond, op, 0, 2, 4) : op \in {0, 2, 4, 6}}

\* Thumb: B, B<cond> and an expanded instruction, each followed by B .
ThumbProgs ==
    {<<Thumb2(TB(0), TB(2046)), Thumb2(TB(2046), TB(2046))>>}
    \cup {<<Thumb2(TBcond(cond, 0), TB(2046)), Thumb2(TB(2046), TB(2046))>> : cond \in 0..13}
    \cup {<<Thumb2(TImm(op, 0, 1), TB(2046)), Thumb2(TB(2046), TB(2046))>> : op \in 0..3}

\* one conditional instruction, on SomeFlags, with the monitor on r4 or not
CondEntries ==
    {[Entry(<<w, Spin>>, Regs1, Cpsr(f, 0, 0, SVC32MODE), Cpsr(0, 0, 0, USER32MODE), 1, 1,
            Data1) EXCEPT !.cpu.exclusive = x] :
        w \in UNION {Conditional(cond) : cond \in 0..AL}, f \in SomeFlags,
        x \in {DataBase}}
    \cup {Entry(p, Regs1, Cpsr(f, 0, 1, USER32MODE), ZERO, 2, 1, Data1) :
        p \in ThumbProgs, f \in SomeFlags}

\* the sequences of length n over a set of words, each followed by B .
RECURSIVE Sequences(_, _)
Sequences(words, n) ==
    IF n = 0 THEN {<<Spin>>}
    ELSE {<<w>> \o p : w \in words, p \in Sequences(words, n - 1)}

MaxLen == 3

\* LDREX r0, [r4]; STREX r1, r2, [r4]; STREX r1, r2, [r5];
\* STREXD/STREXB/STREXH r1, r2, [r4]; CLREX
ExclusiveWords ==
    {LDREXw(AL, 0, 4), STREXw(AL, 0, 1, 2, 4), STREXw(AL, 0, 1, 2, 5),
     STREXw(AL, 2, 1, 2, 4), STREXw(AL, 4, 1, 2, 4), STREXw(AL, 6, 1, 2, 4), CLREXw}

ExclusiveEntries ==
    {Entry(p, Regs1, Cpsr(0, 0, 0, USER32MODE), ZERO, MaxLen, 1, Data1) :
        p \in Sequences(ExclusiveWords, MaxLen)}

\* QADD r0, r2, r3, QSUB r0, r6, r2 and QDADD r0, r1, r2 saturate
SaturatingWords == {QADDw(AL, 0, 0, 2, 3), QADDw(AL, 1, 0, 6, 2), QADDw(AL, 2, 0, 1, 2)}

\* QADD r9, r1, r1 (no saturation); QDSUB r9, r6, r2; MSR CPSR_f, #0;
\* MSR SPSR_f, #0; SUBS pc, pc, #4; LDMIA r4, {pc}^; RFEIA r4; ADDS r0, r0, #1
StatusWords ==
    {QADDw(AL, 0, 9, 1, 1), QADDw(AL, 3, 9, 6, 2), MSRi(AL, 0, 8, 0, 0),
     MSRi(AL, 1, 8, 0, 0), DP(AL, 1, 2, 1, 15, 15, 4), LDMw(AL, 0, 1, 1, 0, 4, 32768),
     RFEw(0, 1, 0, 4), DP(AL, 1, 4, 1, 0, 0, 1)}

\* a saturating operation and then status words, from supervisor mode with
\* Q clear or set in the SPSR, and from user mode
StatusEntries ==
    {Entry(<<w>> \o p, Regs1, Cpsr(0, 0, 0, m[1]), <<m[2], USER32MODE>>, MaxLen, 1, Data1) :
        w \in SaturatingWords, p \in Sequences(StatusWords, MaxLen - 1),
        m \in {<<SVC32MODE, 0>>, <<SVC32MODE, 2048>>, <<USER32MODE, 0>>}}

\* Regs1 with r10 = CodeBase + 1: the first instruction, as Thumb code
Regs2 == [Regs1 EXCEPT ![10] = AddN(CodeBase, 1)]

\* NOP; ADD r9, pc, #0; CMP pc, r7
PcOperandWords == {NOPw(AL), DP(AL, 1, 4, 0, 15, 9, 0), DP(AL, 0, 10, 1, 15, 0, 7)}

\* the same and STR pc, [r4]; BX pc; BXJ pc
PcWords ==
    PcOperandWords \cup {LDSTw(AL, 1, 1, 0, 0, 4, 15, 0), BXw(AL, 1, 15), BXw(AL, 2, 15)}

\* a block that ends in BX r10: it runs again from its first instruction, in
\* Thumb state
BackAsThumb(words, n) == {SubSeq(p, 1, n) \o <<BXw(AL, 1, 10), Spin>> : p \in Sequences(words, n)}

\* Thumb: ADD r1, pc, #0 then BX pc; MOV r0, #1 then ADD r1, pc, #0; BX pc.
\* The word after is ARM code (B .) where BX pc goes, Thumb code (B .) else.
ThumbPcProgs ==
    {<<Thumb2(TAddPc(1, 0), TBX(15)), Spin>>,
     <<Thumb2(TImm(0, 0, 1), TAddPc(1, 0)), Thumb2(TB(2046), TB(2046))>>,
     <<Thumb2(TBX(15), TB(2046)), Spin>>}

\* instructions that read R15, at every place of a block, in both states
PcEntries ==
    {Entry(p, Regs2, Cpsr(0, 0, 0, USER32MODE), ZERO, MaxLen, 1, Data1) :
        p \in Sequences(PcWords, MaxLen)}
    \cup {Entry(p, Regs2, Cpsr(0, 0, 0, USER32MODE), ZERO, 2 * MaxLen, 1, Data1) :
            p \in BackAsThumb(PcOperandWords, MaxLen - 1)}
    \cup {Entry(p, Regs2, Cpsr(0, 0, 1, USER32MODE), ZERO, MaxLen, 1, Data1) :
            p \in ThumbPcProgs}

\* operand values: 0, 1, 0x7FFFFFFF, 0x80000000, 0xFFFFFFFF
ValueRegs == {0, 7, 2, 6, 8}

\* shifter operands on r6 and r8: LSL/LSR/ASR/ROR #1, RRX, LSL/LSR/ASR/ROR r7
ShiftedOperands ==
    {k * 16 + rm : k \in {8, 10, 12, 14, 6, 113, 115, 117, 119}, rm \in {6, 8}}

\* one data-processing instruction: every opcode on every pair of values with
\* S = 1 and Rd = r9, some with S = 0, shifted operands, and Rd = r15
DataProcessingWords ==
    {DP(AL, 0, op, 1, rn, 9, rm) : op \in 0..15, rn \in ValueRegs, rm \in ValueRegs}
    \cup {DP(AL, 0, op, 0, 8, 9, 7) : op \in (0..15) \ (8..11)}
    \cup {DP(AL, 0, op, 1, 8, 9, so) : op \in {0, 4, 13}, so \in ShiftedOperands}
    \cup {DP(AL, 1, op, 1, 8, 15, 1) : op \in 0..15}

DataProcessingEntries ==
    {Entry(<<w, Spin>>, Regs1, Cpsr(f, 0, 0, m), Cpsr(0, 0, 0, USER32MODE), 1, 1, Data1) :
        w \in DataProcessingWords, f \in {0, 2}, m \in {USER32MODE, SVC32MODE}}

\* the loops under every budget, and one run of every kind of instruction
LiveEntries ==
    LoopEntries
    \cup {[Entry(<<w, Spin>>, Regs1, Cpsr(0, 0, 0, SVC32MODE), Cpsr(0, 0, 0, USER32MODE), 2,
               1, Data1) EXCEPT !.cpu.exclusive = DataBase] :
            w \in Conditional(0) \cup Conditional(1) \cup Conditional(AL)
                  \cup {CLREXw, RFEw(0, 1, 0, 4)}}
    \cup {Entry(p, Regs1, Cpsr(0, 0, 1, USER32MODE), ZERO, 2, 1, Data1) : p \in ThumbProgs}
    \cup {Entry(<<w, Spin>>, Regs2, Cpsr(0, 0, 0, USER32MODE), ZERO, 2, 1, Data1) :
            w \in {BXw(AL, 1, 15), BXw(1, 2, 15), SSATw(AL, 7, 9, 0, 0, 8),
                   LDCw(AL, 1, 4), LDCw(AL, 0, 4), SWIw(AL, 50),
                   STMw(AL, 0, 1, 0, 0, 4, 32769)}}

\* values on both sides of the bounds of every width: 0, 1, 0x7FFF, 0x8000,
\* 0x12345678, 0x7FFFFFFF, 0x80000000, 0xEDCBA987, 0xFFFF7FFF, 0xFFFF8000,
\* 0xFFFFFFFF
SsatInputs ==
    {ZERO, U(1), <<0, 32767>>, <<0, 32768>>, <<4660, 22136>>, <<32767, 65535>>,
     <<32768, 0>>, <<60875, 43399>>, <<65535, 32767>>, <<65535, 32768>>, ONES}

\* SSAT r9, #n, r1; SSAT r8, #n, r9, with MSR CPSR_f, #0 between the two or
\* not, for every width n = sat_imm + 1
SsatTwice ==
    {<<SSATw(AL, n, 9, 0, 0, 1)>> \o mid \o <<SSATw(AL, n, 8, 0, 0, 9), Spin>> :
        n \in 0..31, mid \in {<<>>, <<MSRi(AL, 0, 8, 0, 0)>>}}

\* SSAT with a shifted operand: LSL #4, ASR #4, ASR #32, and one that fails
\* its condition
SsatShifted ==
    {<<SSATw(AL, 7, 9, 4, 0, 1), Spin>>, <<SSATw(AL, 7, 9, 4, 1, 1), Spin>>,
     <<SSATw(AL, 7, 9, 0, 1, 1), Spin>>, <<SSATw(0, 7, 9, 0, 0, 1), Spin>>}

SsatEntries ==
    {Entry(p, [Regs1 EXCEPT ![1] = x], Cpsr(0, 0, 0, USER32MODE), ZERO, 3, 1, Data1) :
        p \in SsatTwice \cup SsatShifted, x \in SsatInputs}

\* UDF #0 (E7F000F0), which no entry of the classifier's table matches,
\* after a NOP or after ADD r0, r0, #1
UDFw == <<59376, 240>>

UndefinedEntries ==
    {Entry(<<w, UDFw, Spin>>, Regs1, Cpsr(0, 0, 0, USER32MODE), ZERO, n, 1, Data1) :
        w \in {NOPw(AL), DP(AL, 1, 4, 0, 0, 0, 1)}, n \in 1..3}

\* ADD r0, r0, #1; one of CDP, LDC p14, c0, [r4] and STC p14, c0, [r4], with
\* the condition AL or EQ; ADD r0, r0, #1; B .
CoprocessorEntries ==
    {Entry(<<DP(AL, 1, 4, 0, 0, 0, 1), w, DP(AL, 1, 4, 0, 0, 0, 1), Spin>>, Regs1,
           Cpsr(0, 0, 0, USER32MODE), ZERO, n, 1, Data1) :
        w \in {CDPw(AL), CDPw(0), LDCw(AL, 1, 4), LDCw(0, 1, 4), LDCw(AL, 0, 4), LDCw(0, 0, 4)},
        n \in 2..4}

\* NOP; ADD r0, r0, #1; B . translated into an arena with room for all of the
\* block, for its first record alone, or for none of it
FullEntries ==
    {Entry(<<NOPw(AL), DP(AL, 1, 4, 0, 0, 0, 1), Spin>>, Regs1, Cpsr(0, 0, 0, USER32MODE),
           ZERO, n, 1, Data1) @@ [top |-> CACHE_BUFFER_SIZE - room] :
        n \in 1..3, room \in {0, sizeof_arm_inst, 128}}

\* STR r9, [r10]; ADD r0, r0, #1; TST r0, #1; BNE (the ADD); B (the STR),
\* with r10 = CodeBase and r9 = a NOP: the block overwrites its own first
\* instruction, a block is translated from its second instruction on, and the
\* first block runs again
SelfModifyingProg ==
    <<LDSTw(AL, 1, 1, 0, 0, 10, 9, 0), DP(AL, 1, 4, 0, 0, 0, 1), DP(AL, 1, 8, 1, 0, 0, 1),
      B(1, 0, 16777212), B(AL, 0, 16777210), Spin>>

SelfModifyingEntries ==
    {Entry(SelfModifyingProg, [Regs1 EXCEPT ![10] = CodeBase, ![9] = NOPw(AL)],
           Cpsr(0, 0, 0, USER32MODE), ZERO, n, 1, Data1) :
        n \in {4, 9, 10}}

\* MSR CPSR_<fields>, r0 / r2 / r8 (0, 0x7FFFFFFF, 0xFFFFFFFF) for every field
\* mask, in user mode, from a CPSR with the flags, GE and E clear or set
MsrUserEntries ==
    {Entry(<<MSRr(AL, 0, mask, Rm), Spin>>, [Regs1 EXCEPT ![0] = ZERO], cpsr, ZERO, 1, 1, Data1) :
        mask \in 0..15, Rm \in {0, 2, 8},
        cpsr \in {Cpsr(0, 0, 0, USER32MODE), <<63503, 512 + USER32MODE>>}}

\* SVC #0, #0x32, #0xFFFF, #0x10001, #0xFFFFFF, with the condition AL, or NE
\* under Z clear or set; ADD r0, r0, #1; B .
SvcEntries ==
    {Entry(<<SWIw(cond, imm24), DP(AL, 1, 4, 0, 0, 0, 1), Spin>>, Regs1,
           Cpsr(nzcv, 0, 0, USER32MODE), ZERO, n, 1, Data1) :
        cond \in {AL, 1}, imm24 \in {0, 50, 65535, 65537, 16777215}, nzcv \in {0, 4},
        n \in 1..2}

\* words at base, base + 4, ...
WordsAt(base, words) == [x \in {AddN(base, 4 * (i - 1)) : i \in 1..Len(words)} |->
                            words[((x[2] - base[2]) \div 4) + 1]]

\* LDMIA r13!, {..., pc} for the lists {pc}, {r0, pc}, {r0, r1, pc} and
\* {r2, r7, pc}, with the condition AL or EQ (Z clear).  The stack holds
\* 0x100, 0x200, ... and then the word for the PC: 3 (Thumb code at 2) or the
\* address of the B . after the LDM.  The halfword at 2 is a Thumb B .
PopPcEntries ==
    {Entry(<<LDMw(cond, 0, 1, 0, 1, 13, list), Spin>>, Regs1, Cpsr(0, 0, 0, USER32MODE), ZERO,
           n, 1,
           WordsAt(DataBase, [i \in 1..(Count(list) - 1) |-> U(256 * i)] \o <<target>>)
           @@ (ZERO :> Thumb2(TB(2046), TB(2046)))) :
        cond \in {AL, 0}, list \in {32768, 32769, 32771, 32900},
        target \in {U(3), AddN(CodeBase, 4)}, n \in 1..2}

\* the first address of the page after the one CodeBase lies in
NextPage == AddN(CodeBase, 4096)

\* two ARM instructions that end the page of CodeBase, the second one an ADD,
\* a B . or MOV pc, r11 (r11 = NextPage), and ADD r0, r0, #1; B . on the next
\* page; and the same in Thumb state: MOV r0, #1; ADD r0, #1 end the page, B .
\* follows
PageEndEntries ==
    {[Entry(<<Spin>>, [Regs1 EXCEPT ![11] = NextPage], Cpsr(0, 0, 0, USER32MODE), ZERO, n, 1,
            WordsAt(AddN(CodeBase, 4088),
                    <<w1, w2, DP(AL, 1, 4, 0, 0, 0, 1), Spin>>))
         EXCEPT !.cpu.Reg[15] = AddN(CodeBase, 4088)] :
        w1 \in {NOPw(AL), DP(AL, 1, 4, 0, 0, 0, 1)},
        w2 \in {DP(AL, 1, 4, 0, 0, 0, 1), Spin, DP(AL, 0, 13, 0, 0, 15, 11)},
        n \in 1..4}
    \cup {[Entry(<<Spin>>, Regs1, Cpsr(0, 0, 1, USER32MODE), ZERO, n, 1,
                 WordsAt(AddN(CodeBase, 4092),
                         <<Thumb2(TImm(0, 0, 1), TImm(2, 0, 1)), Thumb2(TB(2046), TB(2046))>>))
              EXCEPT !.cpu.Reg[15] = AddN(CodeBase, 4092)] :
            n \in 1..3}

\* CMP r0, #0 (Z and C become 1); CDP; B .
StaleFlagEntries ==
    {Entry(<<DP(AL, 1, 10, 1, 0, 0, 0), CDPw(AL), Spin>>, Regs1,
           Cpsr(0, 0, 0, USER32MODE), ZERO, n, 1, Data1) : n \in 1..3}

\* RFEIA r4; B .; ADDEQ r0, r0, #1; B . from supervisor mode with all flags
\* clear; at DataBase the status word 0x60000010 (Z and C set, user mode) and
\* the return address CodeBase + 8
ReturnEntries ==
    {Entry(<<RFEw(0, 1, 0, 4), Spin, DP(0, 1, 4, 0, 0, 0, 1), Spin>>, Regs1,
           Cpsr(0, 0, 0, SVC32MODE), Cpsr(0, 0, 0, USER32MODE), n, 1,
           (DataBase :> <<24576, 16>>) @@ (AddN(DataBase, 4) :> AddN(CodeBase, 8))) :
        n \in 1..3}

\* MOVS r9, rm with LSL #0, LSR #0, ASR #0 and ROR #0 on every operand value,
\* with C clear and set; and MOVS r0, r1, LSR #0 with r1 = 0x80000000
ZeroShiftEntries ==
    {Entry(<<DP(AL, 0, 13, 1, 0, 9, k * 32 + rm), Spin>>, Regs1, Cpsr(f, 0, 0, USER32MODE),
           ZERO, 1, 1, Data1) :
        k \in 0..3, rm \in ValueRegs, f \in {0, 2}}
    \cup {Entry(<<DP(AL, 0, 13, 1, 0, 0, 33), Spin>>, [Regs1 EXCEPT ![1] = <<32768, 0>>],
                Cpsr(f, 0, 0, USER32MODE), ZERO, 1, 1, Data1) :
            f \in {0, 2}}

\* STMIA r4, list or STMDB r13!, list, with or without the S bit, for the
\* lists {pc}, {r0, pc} and {r0, r13, r14, pc}, with the condition AL or EQ
\* (Z clear), in user and in supervisor mode, with 0 or 0x00300000 in the
\* user bank's R14
StmEntries ==
    {[Entry(<<STMw(cond, a[1], a[2], S, a[1], a[3], list), Spin>>, Regs1,
            Cpsr(0, 0, 0, mode), ZERO, 1, 1, Data1)
         EXCEPT !.cpu.bank.usr = <<ZERO, lr, ZERO>>] :
        cond \in {AL, 0}, a \in {<<0, 1, 4>>, <<1, 0, 13>>}, S \in {0, 1},
        list \in {32768, 32769, 57345}, mode \in {USER32MODE, SVC32MODE},
        lr \in {ZERO, <<48, 0>>}}

Entries ==
    LoopEntries \cup CondEntries \cup ExclusiveEntries \cup StatusEntries
    \cup DataProcessingEntries \cup PcEntries \cup SsatEntries \cup UndefinedEntries
    \cup CoprocessorEntries \cup FullEntries \cup SelfModifyingEntries \cup MsrUserEntries
    \cup SvcEntries \cup PopPcEntries \cup PageEndEntries
    \cup StaleFlagEntries \cup ReturnEntries \cup ZeroShiftEntries
    \cup StmEntries

\* the state before the first call on entry state e: an empty block cache,
\* and an arena that is empty, or that blocks of guest code the run does not
\* come back to have filled up to e.top
Start(e) ==
    /\ cpu = e.cpu
    /\ mem = e.mem
    /\ inst_buf = <<>>
    /\ top = (IF "top" \in DOMAIN e THEN e.top ELSE 0)
    /\ instruction_cache = <<>>
    /\ ptr = 0
    /\ inst_base = 0
    /\ num_instrs = 0
    /\ pc = "ENTRY"
    /\ ret = 0
    /\ call = 1
    /\ entry = e
    /\ first = [cpu |-> e.cpu, mem |-> e.mem, ret |-> 0]
    /\ last = NoLast(e)
    /\ dispatched = 0
    /\ sticky = "no"

Init == \E e \in Entries : Start(e)

Next ==
    \/ Enter
    \/ DISPATCH
    \/ END
    \/ Replay
    \/ ADC_INST \/ ADD_INST \/ AND_INST \/ BIC_INST \/ CMN_INST \/ CMP_INST
    \/ EOR_INST \/ MOV_INST \/ MVN_INST \/ ORR_INST \/ RSB_INST \/ RSC_INST
    \/ SBC_INST \/ SUB_INST \/ TEQ_INST \/ TST_INST
    \/ BBL_INST
    \/ LDR_INST \/ LDRCOND_INST \/ STR_INST \/ LDM_INST \/ STM_INST \/ RFE_INST
    \/ LDREX_INST \/ STREX_INST \/ STREXB_INST \/ STREXD_INST \/ STREXH_INST
    \/ CLREX_INST
    \/ QADD_INST \/ MSR_INST \/ CPS_INST \/ NOP_INST \/ CDP_INST
    \/ B_2_THUMB \/ B_COND_THUMB
    \/ BX_INST
    \/ SSAT_INST
    \/ SWI_INST
    \/ LDC_INST \/ STC_INST

Spec == Init /\ [][Next]_vars

\* a call that has started keeps running: the interpreter is one thread that
\* nothing preempts for ever
LiveInit == \E e \in LiveEntries : Start(e)

LiveSpec == LiveInit /\ [][Next]_vars /\ WF_vars(Next)

----------------------------------------------------------------------------
(* The instruction budget                                                  *)

\* C1: a call dispatches at most as many handlers as NumInstrsToExecute
\* held on entry, and the value it returns is the number of handlers it
\* dispatched (a handler whose condition fails counts).
C1_BudgetBoundsDispatch ==
    /\ dispatched <= entry.cpu.NumInstrsToExecute
    /\ pc = "DONE" => ret = dispatched

\* a call that spent a budget of 6 on the loop, ending on the BNE that fails
C1_SpentBudget ==
    /\ pc = "DONE"
    /\ call = 1
    /\ dispatched = 6
    /\ entry.cpu.NumInstrsToExecute = 6
    /\ last.idx = "bbl"
    /\ ~last.passed

\* C2: with a finite budget and a program whose words all decode, a call
\* that has been entered returns, and NumInstrsToExecute is 0 on return.
C2_EventuallyReturns ==
    (pc = "ENTRY") ~> (pc = "DONE" /\ cpu.NumInstrsToExecute = 0)

\* a call returned after the whole of the largest budget, with 0 left
C2_ReturnedOutOfBudget ==
    /\ pc = "DONE"
    /\ entry.cpu.NumInstrsToExecute = MaxBudget
    /\ ret = MaxBudget
    /\ cpu.NumInstrsToExecute = 0

----------------------------------------------------------------------------
(* Interrupts                                                              *)

\* C3: at every entry to DISPATCH with the IRQ line asserted (NirqSig = 0)
\* and the I bit of the CPSR clear, the loop goes to END and returns with no
\* block looked up or translated and no handler dispatched; with the I bit
\* set, an asserted IRQ does not stop the loop: while budget is left the
\* next handler is dispatched.
C3_IrqAtDispatch ==
    [][/\ (pc = "DISPATCH" /\ cpu.NirqSig = 0 /\ BIT(cpu.Cpsr, 7) = 0) =>
            /\ pc' = "END"
            /\ UNCHANGED <<cpu, mem, inst_buf, top, instruction_cache, num_instrs,
                           dispatched>>
       /\ (pc = "END" /\ cpu.NirqSig = 0 /\ BIT(cpu.Cpsr, 7) = 0) =>
            /\ pc' = "DONE"
            /\ ret' = num_instrs
            /\ UNCHANGED <<mem, inst_buf, top, instruction_cache, dispatched>>
       /\ (pc = "DISPATCH" /\ cpu.NirqSig = 0 /\ BIT(cpu.Cpsr, 7) = 1
              /\ num_instrs < cpu.NumInstrsToExecute) =>
            /\ pc' = "EXEC"
            /\ num_instrs' = num_instrs + 1]_vars

\* the I bit went off in the middle of a block; at the next DISPATCH, after
\* the branch, the asserted IRQ ended the call with budget left
C3_IrqEndsCall ==
    /\ pc = "END"
    /\ cpu.NirqSig = 0
    /\ BIT(cpu.Cpsr, 7) = 0
    /\ BIT(entry.cpu.Cpsr, 7) = 1
    /\ dispatched = 3
    /\ num_instrs < cpu.NumInstrsToExecute

----------------------------------------------------------------------------
(* Conditional execution                                                   *)

\* C4: a record whose cond field is not AL and whose condition is false on
\* the current flags changes nothing of the CPU state and of the memory,
\* except that R15 advances by the instruction size.
C4_FailedConditionSkips ==
    [][(pc = "EXEC" /\ Rec.cond # AL /\ ~CondPassed(cpu, Rec.cond)) =>
          /\ cpu' = [cpu EXCEPT !.Reg[15] = AddN(@, GetInstructionSize(cpu))]
          /\ mem' = mem]_vars

----------------------------------------------------------------------------
(* Exclusive access                                                        *)

StoreExclusives == {"strex", "strexb", "strexd", "strexh"}

\* a passing STREX is about to run
AtStrex == pc = "EXEC" /\ Rec.idx = "strex" /\ Passes(cpu, Rec)

\* C5: a STREX Rd, Rm, [a] that runs right after a passing LDREX on the same
\* address a leaves Rd = 0 and memory[a] = Rm; one that runs right after
\* LDREX on a and then CLREX leaves Rd = 1 and the memory as it was.
C5_ExclusiveRoundTrip ==
    [][/\ (AtStrex /\ last.idx = "ldrex" /\ last.passed
              /\ AddressOf(last.cpu, last.rec) = cpu.Reg[Rec.Rn]) =>
            /\ cpu'.Reg[Rec.Rd] = ZERO
            /\ Read32(mem', cpu.Reg[Rec.Rn]) = cpu.Reg[Rec.Rm]
       /\ (AtStrex /\ last.idx = "clrex" /\ last.prev.idx = "ldrex" /\ last.prev.passed
              /\ last.prev.addr = cpu.Reg[Rec.Rn]) =>
            /\ cpu'.Reg[Rec.Rd] = U(1)
            /\ mem' = mem]_vars

\* LDREX r0, [r4]; STREX r1, r2, [r4] has run: r1 = 0 and the word is r2
C5_StoredAfterLoad ==
    /\ last.idx = "strex"
    /\ last.prev.idx = "ldrex"
    /\ last.prev.addr = DataBase
    /\ AddressOf(last.cpu, last.rec) = DataBase
    /\ cpu.Reg[1] = ZERO
    /\ Read32(mem, DataBase) = Regs1[2]
    /\ Read32(entry.mem, DataBase) # Regs1[2]

\* C6: a store-exclusive changes the memory only if its condition passes and
\* the monitor holds its address; one that succeeds clears the monitor; and
\* one to the address of the latest successful store-exclusive, with no
\* LDREX since, leaves Rd = 1 and the memory as it was.
C6_OneStorePerLoad ==
    [][(pc = "EXEC" /\ Rec.idx \in StoreExclusives) =>
          /\ mem' # mem =>
                Passes(cpu, Rec) /\ IsExclusiveMemoryAccess(cpu, cpu.Reg[Rec.Rn])
          /\ (Passes(cpu, Rec) /\ IsExclusiveMemoryAccess(cpu, cpu.Reg[Rec.Rn])) =>
                cpu'.exclusive = NoAddress
          /\ (Passes(cpu, Rec) /\ last.stored = cpu.Reg[Rec.Rn]) =>
                cpu'.Reg[Rec.Rd] = U(1) /\ mem' = mem]_vars

\* LDREX; STREX; STREX on r4: the first stored r2, the second left r1 = 1
C6_SecondStoreFailed ==
    /\ last.idx = "strex"
    /\ last.prev.idx = "strex"
    /\ last.prev.addr = DataBase
    /\ AddressOf(last.cpu, last.rec) = DataBase
    /\ last.stored = DataBase
    /\ ~IsExclusiveMemoryAccess(last.cpu, DataBase)
    /\ cpu.Reg[1] = U(1)
    /\ Read32(mem, DataBase) = Regs1[2]
    /\ mem = last.mem

----------------------------------------------------------------------------
(* The Q bit                                                               *)

\* C7 as stated: once a saturating operation has set bit 27 of the CPSR, it
\* is set in every later state of the call unless an MSR wrote the CPSR.
C7_QStaysSet == sticky \in {"set", "returned"} => BIT(cpu.Cpsr, 27) = 1

\* C7, amended: once a saturating operation has set bit 27 of the CPSR, it
\* is set in every later state of the call reached with no MSR to the CPSR
\* and no load of the whole CPSR (from the SPSR by a data-processing
\* instruction with S and Rd = R15 or an LDM with S and R15, in a mode that
\* has an SPSR; from memory by RFE).
C7_QStaysSetUntilRestore == sticky = "set" => BIT(cpu.Cpsr, 27) = 1

\* a saturating operation, MSR SPSR_f and ADDS have run and the call has
\* returned: Q is still set
C7_QSurvived ==
    /\ pc = "DONE"
    /\ sticky = "set"
    /\ dispatched = 3
    /\ last.idx = "add"
    /\ last.prev.idx = "msr"
    /\ BIT(cpu.Cpsr, 27) = 1
    /\ BIT(entry.cpu.Cpsr, 27) = 0

----------------------------------------------------------------------------
(* The block cache                                                         *)

\* C8: a second call from the entry state, memory and budget of the first,
\* which finds in the block cache the blocks the first call translated, ends
\* in the CPU state and the memory the first call ended in and returns the
\* same count.
C8_CachedRunsAlike ==
    (pc = "DONE" /\ call = 2) => (cpu = first.cpu /\ mem = first.mem /\ ret = first.ret)

\* the second call went round the loop out of the block cache and returned
C8_Replayed ==
    /\ pc = "DONE"
    /\ call = 2
    /\ ret = MaxBudget
    /\ first.ret = MaxBudget
    /\ cpu.Reg[0] = U(2)
    /\ CodeBase \in DOMAIN instruction_cache
    /\ AddN(CodeBase, 12) \in DOMAIN instruction_cache

----------------------------------------------------------------------------
(* The flags of the data-processing instructions                           *)

Compares == {"cmn", "cmp", "teq", "tst"}
Additive == {"adc", "add", "cmn", "cmp", "rsb", "rsc", "sbc", "sub"}
DataProcessing ==
    Additive \cup {"and", "bic", "eor", "mov", "mvn", "orr", "teq", "tst"}

\* a data-processing record that sets the flags is about to run with a
\* passing condition
AtFlagSetter ==
    /\ pc = "EXEC"
    /\ Rec.idx \in DataProcessing
    /\ Passes(cpu, Rec)
    /\ Rec.idx \in Compares \/ Rec.S = 1

\* the destination is not R15 (a compare has none)
KeepsMode == Rec.idx \in Compares \/ Rec.Rd # 15

\* the 32-bit result of record rec on state c, from the operation's definition
Result(c, rec, rn, so) ==
    CASE rec.idx = "adc" -> Sum33(rn, so, c.CFlag).value
      [] rec.idx \in {"add", "cmn"} -> Add32(rn, so)
      [] rec.idx \in {"and", "tst"} -> And32(rn, so)
      [] rec.idx = "bic" -> And32(rn, Not32(so))
      [] rec.idx \in {"eor", "teq"} -> Xor32(rn, so)
      [] rec.idx = "mov" -> so
      [] rec.idx = "mvn" -> Not32(so)
      [] rec.idx = "orr" -> Or32(rn, so)
      [] rec.idx = "rsb" -> Sub32(so, rn)
      [] rec.idx = "rsc" -> Sum33(so, Not32(rn), c.CFlag).value
      [] rec.idx = "sbc" -> Sum33(rn, Not32(so), c.CFlag).value
      [] rec.idx \in {"sub", "cmp"} -> Sub32(rn, so)

ResultOf(c, rec) ==
    Result(c, rec, IF "Rn" \in DOMAIN rec THEN RnValue(c, rec) ELSE ZERO,
           SHIFTER_OPERAND(c, rec).so)

\* N and Z after the step are those of result
NZFrom(result) ==
    /\ cpu'.NFlag = BIT(result, 31)
    /\ cpu'.ZFlag = (IF result = ZERO THEN 1 ELSE 0)

CVFrom(x, y, cin) ==
    /\ cpu'.CFlag = AddWithCarry(x, y, cin).carry
    /\ cpu'.VFlag = AddWithCarry(x, y, cin).overflow

\* the sum the statement gives for record rec: Rn + operand + carry-in for
\* ADD, CMN and ADC, Rn + NOT(operand) + carry-in for the subtractions
CVAsStated(c, rec, rn, so) ==
    CASE rec.idx \in {"add", "cmn"} -> CVFrom(rn, so, 0)
      [] rec.idx = "adc" -> CVFrom(rn, so, c.CFlag)
      [] rec.idx \in {"sub", "cmp", "rsb"} -> CVFrom(rn, Not32(so), 1)
      [] rec.idx \in {"sbc", "rsc"} -> CVFrom(rn, Not32(so), c.CFlag)

\* the same with the operands of RSB and RSC the other way round:
\* operand + NOT(Rn) + carry-in
CVReversed(c, rec, rn, so) ==
    CASE rec.idx = "rsb" -> CVFrom(so, Not32(rn), 1)
      [] rec.idx = "rsc" -> CVFrom(so, Not32(rn), c.CFlag)
      [] OTHER -> CVAsStated(c, rec, rn, so)

----------------------------------------------------------------------------
(* R15 as a source                                                         *)

\* the value the architecture gives a read of R15 by the instruction record
\* rec was translated from: its address plus 8 in ARM state, plus 4 in Thumb
\* state
PcValue(c, rec) == AddN(rec.addr, IF c.TFlag = 1 THEN 4 ELSE 8)

\* a data-processing record with Rn = R15 is about to run with a passing
\* condition and a destination other than R15
AtPcOperand ==
    /\ pc = "EXEC"
    /\ Rec.idx \in DataProcessing \ {"mov", "mvn"}
    /\ Passes(cpu, Rec)
    /\ Rec.Rn = 15
    /\ KeepsMode

\* a STR of R15 is about to run with a passing condition
AtPcStore ==
    pc = "EXEC" /\ Rec.idx = "str" /\ Passes(cpu, Rec) /\ BITS(Rec.inst, 12, 15) = 15

\* a BX or BXJ through R15 is about to run with a passing condition
AtPcBranch ==
    pc = "EXEC" /\ Rec.idx \in {"bx", "bxj"} /\ Passes(cpu, Rec) /\ Rec.Rm = 15

\* the step computes with v as the value of R15
UsesPcValue(v) ==
    /\ AtPcOperand =>
          IF Rec.idx \in Compares
          THEN NZFrom(Result(cpu, Rec, v, SHIFTER_OPERAND(cpu, Rec).so))
          ELSE cpu'.Reg[Rec.Rd] = Result(cpu, Rec, v, SHIFTER_OPERAND(cpu, Rec).so)
    /\ AtPcStore => Read32(mem', get_addr(cpu, Rec).addr) = v
    /\ AtPcBranch => cpu'.Reg[15] = AlignHalf(v) /\ cpu'.TFlag = v[2] % 2

\* C11: a data-processing instruction with Rn = R15, a STR of R15 and a BX
\* or BXJ through R15 use the address of the instruction plus 8 in ARM state
\* and plus 4 in Thumb state, wherever the instruction stands in its block.
C11_PcReadsAhead == [][UsesPcValue(PcValue(cpu, Rec))]_vars

\* the same for the records that run in the instruction-set state they were
\* translated in: this one holds
PcReadsAheadInState ==
    [][(pc = "EXEC" /\ Rec.tflag = cpu.TFlag) => UsesPcValue(PcValue(cpu, Rec))]_vars

----------------------------------------------------------------------------
(* Saturation to a width                                                   *)

\* SSAT with no shift of its operand is about to run its body
AtPlainSsat ==
    /\ InstLabel("ssat")
    /\ Passes(cpu, Rec)
    /\ Rec.imm5 = 0
    /\ Rec.shift_type = 0

\* the values SSAT of the width sat_imm + 1 yields
SsatValues(sat_imm) == {ARMul_SignedSatQ(x, sat_imm).result : x \in SsatInputs}

\* C12: SSAT of a width n in 1..32, with no shift, applied to a value that
\* SSAT of the same width yielded, writes that value again and reports no
\* saturation: the Q bit stays as it was.
C12_SsatIdempotent ==
    [][(AtPlainSsat /\ cpu.Reg[Rec.Rn] \in SsatValues(Rec.sat_imm))
          => /\ cpu'.Reg[Rec.Rd] = cpu.Reg[Rec.Rn]
             /\ BIT(cpu'.Cpsr, 27) = BIT(cpu.Cpsr, 27)]_vars

\* the second SSAT has run on a value the first one had clamped, with Q
\* cleared in between
C12_ClampedTwice ==
    /\ last.idx = "ssat"
    /\ last.rec.Rn = 9
    /\ last.prev.idx = "msr"
    /\ last.cpu.Reg[9] # last.cpu.Reg[1]
    /\ last.cpu.Reg[9] \in SsatValues(last.rec.sat_imm)
    /\ BIT(last.cpu.Cpsr, 27) = 0
    /\ cpu.Reg[8] = last.cpu.Reg[9]
    /\ BIT(cpu.Cpsr, 27) = 0

----------------------------------------------------------------------------
(* Classification failure                                                  *)

\* C13: when the ARM classifier reports failure for a fetched word, no
\* operation record is created for that word and no handler is dispatched
\* for it.
C13_FailureAborts ==
    /\ \A o \in DOMAIN inst_buf : ~inst_buf[o].failed
    /\ last.idx # "none" => ~last.rec.failed

----------------------------------------------------------------------------
(* Coprocessor instructions                                                *)

\* C15: CDP, LDC or STC whose condition passes makes InterpreterMainLoop
\* return at once with NumInstrsToExecute set to 0: no later instruction of
\* the block runs in that call.
C15_CoprocessorReturns ==
    [][(pc = "EXEC" /\ inst_base \in DOMAIN inst_buf /\ Rec.idx \in {"cdp", "ldc", "stc"}
          /\ Passes(cpu, Rec))
          => (pc' = "DONE" /\ cpu'.NumInstrsToExecute = 0)]_vars

----------------------------------------------------------------------------
(* The arena                                                               *)

\* C14: in no reachable state is an operation record written at or beyond
\* the end of inst_buf: an allocation that would push top past
\* CACHE_BUFFER_SIZE aborts, or resets the arena and the block cache.
C14_ArenaBounded ==
    \A o \in DOMAIN inst_buf : o + inst_buf[o].alloc <= CACHE_BUFFER_SIZE

\* C16: no step changes or removes a mapping of the block cache or rewrites
\* a record of the arena, and top never decreases, also after the guest has
\* overwritten the code a block was decoded from.
C16_BlocksStay ==
    [][/\ \A a \in DOMAIN instruction_cache :
             a \in DOMAIN instruction_cache' /\ instruction_cache'[a] = instruction_cache[a]
       /\ \A o \in DOMAIN inst_buf : o \in DOMAIN inst_buf' /\ inst_buf'[o] = inst_buf[o]
       /\ top' >= top]_vars

\* the guest has overwritten the first word of a cached block, a block was
\* translated after that, and the record made from the old word has run again
C16_StaleBlockRuns ==
    /\ CodeBase \in DOMAIN instruction_cache
    /\ Cardinality(DOMAIN instruction_cache) = 3
    /\ inst_buf[instruction_cache[CodeBase]].idx = "str"
    /\ last.idx = "str"
    /\ last.rec.addr = CodeBase
    /\ last.mem[CodeBase] = NOPw(AL)
    /\ entry.mem[CodeBase] # NOPw(AL)

----------------------------------------------------------------------------
(* MSR in user mode                                                        *)

\* MSR to the CPSR is about to run its body in user mode
AtUserMsr ==
    /\ InstLabel("msr")
    /\ Passes(cpu, Rec)
    /\ Rec.R = 0
    /\ ~InAPrivilegedMode(cpu)

\* the bits of the CPSR, flags and T bit included, that differ between c and d
CpsrChange(c, d) == Xor32(SAVE_NZCVT(c).Cpsr, SAVE_NZCVT(d).Cpsr)

\* C17: in user mode an MSR to the CPSR changes no bit of the CPSR outside
\* the top byte (bits 31..24), whatever the field mask and the operand.
C17_UserWritesTopByte ==
    [][AtUserMsr => And32(CpsrChange(cpu, cpu'), <<255, 65535>>) = ZERO]_vars

\* C17 as amended: no bit outside the top byte, the GE bits (19..16) and the
\* E bit (9).
C17_UserWritesTopByteGeE ==
    [][AtUserMsr => And32(CpsrChange(cpu, cpu'), <<240, 65023>>) = ZERO]_vars

\* a user-mode MSR with every field named and the operand 0xFFFFFFFF has set
\* the flags, GE and E, and left the I bit and the mode alone
C17_UserWroteGe ==
    /\ last.idx = "msr"
    /\ last.rec.R = 0
    /\ last.cpu.Mode = USER32MODE
    /\ BITS(last.rec.inst, 16, 19) = 15
    /\ last.cpu.Reg[BITS(last.rec.inst, 0, 3)] = ONES
    /\ SAVE_NZCVT(last.cpu).Cpsr = <<0, USER32MODE>>
    /\ SAVE_NZCVT(cpu).Cpsr = <<63503, 512 + USER32MODE>>

----------------------------------------------------------------------------
(* Supervisor calls                                                        *)

\* C18: SWI/SVC whose condition passes invokes the supervisor-call handler
\* exactly once, with the 24-bit immediate (bits 23..0) of the instruction;
\* with a failing condition the handler is not invoked.
C18_SvcImmediate ==
    [][InstLabel("swi")
          => last'.svc = (IF Passes(cpu, Rec) THEN <<BITS(entry.mem[Rec.addr], 0, 23)>>
                          ELSE <<>>)]_vars

----------------------------------------------------------------------------
(* LDM with writeback and the PC in the list                               *)

\* LDM increment-after with W set, no S bit, the PC in the list and the base
\* out of it is about to run its body
AtPopPc ==
    /\ InstLabel("ldm")
    /\ Passes(cpu, Rec)
    /\ BITS(Rec.inst, 21, 24) = 5
    /\ BIT(Rec.inst, 15) = 1
    /\ BIT(Rec.inst, BITS(Rec.inst, 16, 19)) = 0

\* the word LDM loads into register r: one word up for every listed register
\* below r
PoppedWord(c, m, inst, r) ==
    Read32(m, AddN(c.Reg[BITS(inst, 16, 19)], 4 * Count(BITS(inst, 0, 15) % (2 ^ r))))

\* C19: LDM without S, with W, increment-after, the PC in the list and the
\* base out of it: the listed registers receive consecutive words in
\* ascending register order, the PC the loaded word with bit 0 cleared, the T
\* flag bit 0 of that word, the base ends at old base + 4 x (number of listed
\* registers), and the next instruction is fetched by DISPATCH.
C19_PopPc ==
    [][AtPopPc
          => /\ \A r \in 0..14 :
                   (BIT(Rec.inst, r) = 1) => cpu'.Reg[r] = PoppedWord(cpu, mem, Rec.inst, r)
             /\ cpu'.Reg[15] = AlignHalf(PoppedWord(cpu, mem, Rec.inst, 15))
             /\ cpu'.TFlag = BIT(PoppedWord(cpu, mem, Rec.inst, 15), 0)
             /\ cpu'.Reg[BITS(Rec.inst, 16, 19)]
                    = AddN(cpu.Reg[BITS(Rec.inst, 16, 19)], 4 * Count(BITS(Rec.inst, 0, 15)))
             /\ pc' = "DISPATCH"]_vars

\* LDMIA r13!, {r0, r1, pc} on the words 0x100, 0x200, 3: r0 = 0x100,
\* r1 = 0x200, PC = 2, T = 1, r13 has moved by 12, and DISPATCH has fetched
\* the Thumb instruction at 2
C19_PoppedToThumb ==
    /\ last.idx = "ldm"
    /\ last.rec.inst = LDMw(AL, 0, 1, 0, 1, 13, 32771)
    /\ cpu.Reg[0] = U(256)
    /\ cpu.Reg[1] = U(512)
    /\ cpu.Reg[15] = U(2)
    /\ cpu.TFlag = 1
    /\ cpu.Reg[13] = AddN(last.cpu.Reg[13], 12)
    /\ pc = "EXEC"
    /\ Rec.idx = "b_2_thumb"
    /\ Rec.addr = U(2)

----------------------------------------------------------------------------
(* The dispatch pointer and the guest PC                                   *)

\* C20: at every handler entry the record at ptr is the start of a record a
\* translator created, and Reg[15] is the guest address of the instruction
\* that record was translated from.
C20_RecordMatchesPc ==
    pc = "EXEC" => /\ inst_base = ptr
                   /\ ptr \in DOMAIN inst_buf
                   /\ cpu.Reg[15] = Rec.addr

\* the same where the record runs in the instruction-set state it was
\* translated in: this one holds
RecordMatchesPcInState ==
    pc = "EXEC" => /\ inst_base = ptr
                   /\ ptr \in DOMAIN inst_buf
                   /\ (Rec.tflag = cpu.TFlag => cpu.Reg[15] = Rec.addr)

----------------------------------------------------------------------------
(* Blocks and pages                                                        *)

\* the arena offsets at which InterpreterTranslate started a block
BlockStarts == {instruction_cache[a] : a \in DOMAIN instruction_cache}

\* the offsets of the records of the block that starts at b: the records up
\* to the next block, or up to top
BlockRecords(b) ==
    {o \in DOMAIN inst_buf : o >= b /\ \A c \in BlockStarts : c > b => o < c}

\* the 4 KiB guest page of an address
PageOf(a) == <<a[1], a[2] \div 4096>>

\* the guest address after the instruction a record was translated from
EndOf(rec) == AddN(rec.addr, IF rec.tflag = 1 THEN 2 ELSE 4)

\* C21: in every block every record but the last has the flow NON_BRANCH and
\* the last has another flow; all instructions of a block lie in one 4 KiB
\* guest page; and a block whose last instruction ends at a page boundary
\* has END_OF_PAGE on its last record.
C21_BlockShape ==
    \A b \in BlockStarts :
        /\ b \in DOMAIN inst_buf
        /\ \A o \in BlockRecords(b) :
              /\ (inst_buf[o].br = NON_BRANCH) <=> (\E p \in BlockRecords(b) : p > o)
              /\ inst_buf[o].br = NON_BRANCH => (o + inst_buf[o].alloc) \in BlockRecords(b)
              /\ PageOf(inst_buf[o].addr) = PageOf(inst_buf[b].addr)
              /\ EndOf(inst_buf[o])[2] % 4096 = 0 => inst_buf[o].br = END_OF_PAGE

\* a block has ended on an ADD at the end of its page, and the next page's
\* first instruction has been fetched through DISPATCH, as a block of its own
C21_PageEnded ==
    /\ \E o \in DOMAIN inst_buf :
          /\ inst_buf[o].idx = "add"
          /\ EndOf(inst_buf[o]) = NextPage
          /\ inst_buf[o].br = END_OF_PAGE
          /\ o \notin BlockStarts
    /\ NextPage \in DOMAIN instruction_cache
    /\ last.idx = "add"
    /\ last.rec.addr = NextPage

\* the data-processing operations that write Rd
DataProcessingToRd ==
    {"adc", "add", "and", "bic", "eor", "mov", "mvn", "orr", "rsb", "rsc", "sbc", "sub"}

\* the records of data-processing operations with Rd == 15
PcWriters ==
    {o \in DOMAIN inst_buf : inst_buf[o].idx \in DataProcessingToRd /\ inst_buf[o].Rd = 15}

\* the flow br has the bit flag among its bits
FlowIncludes(br, flag) == (br \div flag) % 2 = 1

\* C26: every record of a data-processing operation with Rd == 15 has a flow
\* that includes INDIRECT_BRANCH once the translation of its block has
\* finished, wherever the instruction lies in its page.
C26_PcWriterIsIndirect ==
    \A o \in PcWriters : FlowIncludes(inst_buf[o].br, INDIRECT_BRANCH)

\* the same for the instructions that do not end their page
PcWriterIsIndirectInsidePage ==
    \A o \in PcWriters :
        EndOf(inst_buf[o])[2] % 4096 # 0 => FlowIncludes(inst_buf[o].br, INDIRECT_BRANCH)

----------------------------------------------------------------------------
(* The block cache and the instruction-set state                           *)

\* C27: a block entered from DISPATCH was decoded in the instruction-set
\* state the T flag holds at that DISPATCH: an address entered in Thumb
\* state never runs records decoded from it in ARM state, and vice versa.
C27_BlockDecodedInState ==
    (pc = "EXEC" /\ ptr \in BlockStarts /\ ptr \in DOMAIN inst_buf)
        => inst_buf[ptr].tflag = cpu.TFlag

\* all records of one block were decoded in one instruction-set state
BlockInOneState ==
    \A b \in BlockStarts : \A o \in BlockRecords(b) :
        b \in DOMAIN inst_buf => inst_buf[o].tflag = inst_buf[b].tflag

----------------------------------------------------------------------------
(* CPSR and the flags at return                                            *)

\* CPSR bits 31, 30, 29, 28 and 5 of state c equal NFlag, ZFlag, CFlag, VFlag
\* and TFlag
CpsrMirrorsFlags(c) ==
    /\ BIT(c.Cpsr, 31) = c.NFlag
    /\ BIT(c.Cpsr, 30) = c.ZFlag
    /\ BIT(c.Cpsr, 29) = c.CFlag
    /\ BIT(c.Cpsr, 28) = c.VFlag
    /\ BIT(c.Cpsr, 5) = c.TFlag

\* C23: whenever InterpreterMainLoop returns, by any exit path, CPSR bits 31,
\* 30, 29, 28 and 5 equal NFlag, ZFlag, CFlag, VFlag and TFlag.
C23_CpsrMirrorsAtReturn ==
    pc = "DONE" => CpsrMirrorsFlags(cpu)

\* the same for the returns through END
CpsrMirrorsAtEnd ==
    [][(pc = "END" /\ pc' = "DONE") => CpsrMirrorsFlags(cpu')]_vars

----------------------------------------------------------------------------
(* RFE                                                                     *)

\* the handler of an RFE record is about to run
AtRfe == pc = "EXEC" /\ inst_base \in DOMAIN inst_buf /\ Rec.idx = "rfe"

\* the status word RFE loads in the current state
RfeStatus == Read32(mem, get_addr(cpu, Rec).addr)

\* NFlag, ZFlag, CFlag, VFlag and TFlag of state c are bits 31, 30, 29, 28
\* and 5 of the word w
FlagsAre(c, w) ==
    /\ c.NFlag = BIT(w, 31)
    /\ c.ZFlag = BIT(w, 30)
    /\ c.CFlag = BIT(w, 29)
    /\ c.VFlag = BIT(w, 28)
    /\ c.TFlag = BIT(w, 5)

\* C28: after RFE the N, Z, C, V and T flags that the following instructions
\* use equal the corresponding bits of the status word RFE loaded from memory
\* (and so does the CPSR the loop returns with, which END builds from them).
C28_RfeRestoresFlags ==
    [][AtRfe => FlagsAre(cpu', RfeStatus)]_vars

\* RFE does load the status word into CPSR
RfeLoadsCpsr ==
    [][AtRfe => cpu'.Cpsr = RfeStatus]_vars

----------------------------------------------------------------------------
(* Shifts by an immediate with the encoded amount 0                        *)

\* a flag-setting MOV Rd, Rm, <shift> #0 whose condition passes is about to
\* run, with neither register the PC
AtZeroShiftMov ==
    /\ pc = "EXEC"
    /\ inst_base \in DOMAIN inst_buf
    /\ Rec.idx = "mov"
    /\ Rec.I = 0
    /\ Rec.S = 1
    /\ Rec.shifter_operand \div 16 \in {0, 2, 4, 6}
    /\ Rec.shifter_operand % 16 # 15
    /\ Rec.Rd # 15
    /\ Passes(cpu, Rec)

\* what the shift kind (0 LSL, 1 LSR, 2 ASR, 3 ROR) by #0 makes of the value
\* rm under the carry flag c
ZeroShift(kind, rm, c) ==
    CASE kind = 0 -> [so |-> rm, sco |-> c]
      [] kind = 1 -> [so |-> ZERO, sco |-> BIT(rm, 31)]
      [] kind = 2 -> [so |-> IF BIT(rm, 31) = 1 THEN ONES ELSE ZERO, sco |-> BIT(rm, 31)]
      [] kind = 3 -> [so |-> Or32(Shl32(U(c), 31), Shr32(rm, 1)), sco |-> BIT(rm, 0)]

\* C30: for shifts by an immediate whose encoded amount is 0, LSL gives Rm
\* and the carry-out C; LSR gives 0 and Rm[31]; ASR gives 0 or 0xFFFFFFFF
\* according to Rm[31], and Rm[31]; ROR gives (C << 31) | (Rm >> 1) and
\* Rm[0]; a flag-setting MOV leaves that value in Rd and that carry-out in C.
C30_ZeroShift ==
    [][AtZeroShiftMov =>
          \E z \in {ZeroShift((Rec.shifter_operand \div 32) % 4,
                              cpu.Reg[Rec.shifter_operand % 16], cpu.CFlag)} :
              /\ cpu'.Reg[Rec.Rd] = z.so
              /\ cpu'.CFlag = z.sco]_vars

\* MOVS r0, r1, LSR #0 has run with r1 = 0x80000000 and C clear: r0 = 0, C = 1
C30_LsrZero ==
    /\ last.idx = "mov"
    /\ last.rec.shifter_operand = 33
    /\ last.rec.S = 1
    /\ last.cpu.Reg[1] = <<32768, 0>>
    /\ last.cpu.CFlag = 0
    /\ cpu.Reg[0] = ZERO
    /\ cpu.CFlag = 1

----------------------------------------------------------------------------
(* The addressing functions on their own                                   *)

\* LDR Rd, [Rn, ...] with a register operand (bit 25 set): P, U, W as in LDSTw
LDSTr(cond, P, Up, Wb, Rn, Rd, operand) ==
    <<cond * 4096 + 1536 + P * 256 + Up * 128 + Wb * 32 + 16 + Rn, Rd * 4096 + operand>>

\* LDRH Rd, [Rn, ...]: I = 1 the offset immH:low, I = 0 the register low
LDRHw(cond, P, Up, I, Wb, Rn, Rd, immH, low) ==
    <<cond * 4096 + P * 256 + Up * 128 + I * 64 + Wb * 32 + 16 + Rn,
      Rd * 4096 + immH * 256 + 176 + low>>

\* one word for every pre-indexed and post-indexed form, base r4, down or
\* up, under the conditions EQ, NE and AL: offset #4, r7, r7 LSL #2, r6 ASR #32
\* and r8 RRX for LDR; #0x14 and r7 for LDRH
AddressWords ==
    UNION {{LDSTw(cond, P, Up, P, 1, 4, 0, 4),
            LDSTr(cond, P, Up, P, 4, 0, 7),
            LDSTr(cond, P, Up, P, 4, 0, 2 * 128 + 7),
            LDSTr(cond, P, Up, P, 4, 0, 2 * 32 + 6),
            LDSTr(cond, P, Up, P, 4, 0, 3 * 32 + 8),
            LDRHw(cond, P, Up, 1, P, 4, 0, 1, 4),
            LDRHw(cond, P, Up, 0, P, 4, 0, 0, 7)} :
           cond \in {0, 1, AL}, P \in {0, 1}, Up \in {0, 1}}

\* an addressing function is about to be called for the word w with the flags
\* nzcv: the CPU state is that of a handler entry
AddressStart(w, nzcv) ==
    \E e \in {Entry(<<w, Spin>>, Regs1, Cpsr(nzcv, 0, 0, USER32MODE), ZERO, 1, 1, Data1)} :
        /\ cpu = e.cpu
        /\ mem = e.mem
        /\ inst_buf = <<>>
        /\ top = 0
        /\ instruction_cache = <<>>
        /\ ptr = 0
        /\ inst_base = 0
        /\ num_instrs = 0
        /\ pc = "GET_ADDR"
        /\ ret = 0
        /\ call = 1
        /\ entry = e
        /\ first = [cpu |-> e.cpu, mem |-> e.mem, ret |-> 0]
        /\ last = [NoLast(e) EXCEPT !.rec = [inst |-> w, get_addr |-> get_calc_addr_op(w)]]
        /\ dispatched = 0
        /\ sticky = "no"

AddressInit == \E w \in AddressWords, nzcv \in {0, 2, 4} : AddressStart(w, nzcv)

\* inst_cream->get_addr(cpu, inst_cream->inst, addr): the CPU state it leaves,
\* and the address in last.prev.addr
CalcAddress ==
    /\ pc = "GET_ADDR"
    /\ \E a \in {get_addr(cpu, last.rec)} :
         /\ cpu' = a.cpu
         /\ last' = [last EXCEPT !.cpu = cpu, !.prev.addr = a.addr]
    /\ pc' = "ADDRESSED"
    /\ UNCHANGED <<mem, inst_buf, top, instruction_cache, ptr, inst_base, num_instrs,
                   ret, call, entry, first, dispatched, sticky>>

AddressNext == CalcAddress

AddressSpec == AddressInit /\ [][AddressNext]_vars

\* the word the addressing function is called for, and its base register
AddressedWord == last.rec.inst
BaseRegister == BITS(AddressedWord, 16, 19)

BaseKeptOnFailureButImmediatePost ==
    [][(pc = "GET_ADDR" /\ ~CondPassed(cpu, BITS(AddressedWord, 28, 31))
          /\ last.rec.get_addr # "LnSWoUB_ImmediatePostIndexed")
          => cpu'.Reg[BaseRegister] = cpu.Reg[BaseRegister]]_vars

\* every form moves the base register when the condition passes
BaseMovesOnSuccess ==
    [][(pc = "GET_ADDR" /\ CondPassed(cpu, BITS(AddressedWord, 28, 31)))
          => cpu'.Reg[BaseRegister] # cpu.Reg[BaseRegister]]_vars

----------------------------------------------------------------------------
(* STM with R15 in the list                                                *)

\* an STM with R15 in its list whose condition passes is about to run
AtStmPc ==
    /\ pc = "EXEC"
    /\ inst_base \in DOMAIN inst_buf
    /\ Rec.idx = "stm"
    /\ BIT(Rec.inst, 15) = 1
    /\ Passes(cpu, Rec)

\* the slot of R15: the last of the words the STM stores
PcSlot == AddN(get_addr(cpu, Rec).addr, 4 * (Count(BITS(Rec.inst, 0, 15)) - 1))

\* C29: an STM whose register list contains R15 stores, in the slot for R15,
\* the address of the STM instruction plus 8, in every processor mode.
C29_StmStoresPc ==
    [][AtStmPc => Read32(mem', PcSlot) = AddN(Rec.addr, 8)]_vars

\* what the slot takes: R14 of the user bank plus 8
StmStoresUserLr ==
    [][AtStmPc => Read32(mem', PcSlot) = AddN(cpu.bank.usr[2], 8)]_vars

----------------------------------------------------------------------------
(* One run and the same budget in two runs                                 *)

\* STR r9, [r10]; NOP; B . with r10 = the address of the NOP and r9 = the word
\* ADD r0, r0, #1: the block overwrites its own second instruction
OverwriteNextEntries ==
    {Entry(<<LDSTw(AL, 1, 1, 0, 0, 10, 9, 0), NOPw(AL), Spin>>,
           [Regs1 EXCEPT ![10] = AddN(CodeBase, 4), ![9] = DP(AL, 1, 4, 0, 0, 0, 1)],
           Cpsr(0, 0, 0, USER32MODE), ZERO, n, 1, Data1) :
        n \in 1..3}

\* ADDS r0, r0, #1; ADD r9, r0, r7; CMP r0, #2; BNE (the ADDS); B .
CountingEntries ==
    {Entry(<<DP(AL, 1, 4, 1, 0, 0, 1), DP(AL, 0, 4, 0, 0, 9, 7), DP(AL, 1, 10, 1, 0, 0, 2),
             B(1, 0, 16777211), Spin>>,
           Regs1, Cpsr(0, 0, 0, USER32MODE), ZERO, n, 1, Data1) :
        n \in 0..MaxBudget}

SplitEntries ==
    LiveEntries \cup StaleFlagEntries \cup OverwriteNextEntries \cup CountingEntries
    \cup CoprocessorEntries

SplitInit == \E e \in SplitEntries : Start(e)

\* the host starts over on a fresh interpreter from the state the first call
\* started from, with k of the budget
Split ==
    /\ pc = "DONE"
    /\ call = 1
    /\ \E k \in 0..entry.cpu.NumInstrsToExecute :
         /\ cpu' = [entry.cpu EXCEPT !.NumInstrsToExecute = k]
         /\ entry' = [split |-> k] @@ entry
    /\ mem' = entry.mem
    /\ inst_buf' = <<>>
    /\ top' = (IF "top" \in DOMAIN entry THEN entry.top ELSE 0)
    /\ instruction_cache' = <<>>
    /\ ptr' = 0
    /\ inst_base' = 0
    /\ num_instrs' = 0
    /\ pc' = "ENTRY"
    /\ ret' = 0
    /\ call' = 3
    /\ last' = NoLast(entry)
    /\ dispatched' = 0
    /\ sticky' = "no"
    /\ first' = first

\* the host re-enters the loop with the rest of the budget
Resume ==
    /\ pc = "DONE"
    /\ call = 3
    /\ cpu' = [cpu EXCEPT !.NumInstrsToExecute = entry.cpu.NumInstrsToExecute - entry.split]
    /\ pc' = "ENTRY"
    /\ call' = 4
    /\ UNCHANGED <<mem, inst_buf, top, instruction_cache, ptr, inst_base, num_instrs, ret,
                   entry, first, last, dispatched, sticky>>

SplitNext == Next \/ Split \/ Resume

SplitSpec == SplitInit /\ [][SplitNext]_vars

\* the registers, the flags, the CPSR and the monitor of state c
Visible(c) == <<c.Reg, c.NFlag, c.ZFlag, c.CFlag, c.VFlag, c.TFlag, c.Cpsr, c.exclusive>>

\* the second of the two runs has returned, with no IRQ asserted
SplitDone == pc = "DONE" /\ call = 4 /\ entry.cpu.NirqSig = 1

\* C22: with no IRQ asserted, a run with budget k and then one with budget
\* n - k leave the same registers, flags, CPSR, monitor and guest memory as
\* one run with budget n, even when the first run stops inside a block.
C22_SplitSame ==
    SplitDone => (Visible(cpu) = Visible(first.cpu) /\ mem = first.mem)

\* the entry state as the first call got it
Original(e) == [f \in DOMAIN e \ {"split"} |-> e[f]]

\* the same where no CDP returns with changed flags and the guest does not
\* overwrite an instruction it has translated
SplitSameOnFixedCode ==
    (SplitDone /\ Original(entry) \notin StaleFlagEntries \cup OverwriteNextEntries)
        => (Visible(cpu) = Visible(first.cpu) /\ mem = first.mem)

\* the guest has overwritten the second instruction of its block: one run
\* goes on with the record of the old instruction, the second of two runs
\* translates the new one
SplitSeesNewCode ==
    (SplitDone /\ Original(entry) \in OverwriteNextEntries
        /\ entry.cpu.NumInstrsToExecute = 2 /\ entry.split = 1)
        => (first.cpu.Reg[0] = ZERO /\ cpu.Reg[0] = U(1))

----------------------------------------------------------------------------
(* An IRQ raised while a block runs                                        *)

\* NOP; CPSID i; NOP; B . from supervisor mode: the block masks the IRQ
MaskingProg == <<NOPw(AL), CPSw(3, 0, 2, 0), NOPw(AL), Spin>>

\* every instruction once, a loop of one block of four instructions, and the
\* masking block, with the IRQ line idle at the call
IrqEntries ==
    LiveEntries \cup CountingEntries
    \cup {Entry(MaskingProg, Regs1, Cpsr(0, 0, 0, SVC32MODE), ZERO, n, 1, Data1) : n \in 3..6}

IrqInit == \E e \in IrqEntries : Start(e)

\* the records from the one at offset o to the end of its block
RECURSIVE RestOfBlock(_)
RestOfBlock(o) ==
    IF o \notin DOMAIN inst_buf THEN {}
    ELSE IF inst_buf[o].br # NON_BRANCH THEN {o}
    ELSE {o} \cup RestOfBlock(o + inst_buf[o].alloc)

\* the IRQ line becomes asserted while a handler of a block is about to run,
\* with the I bit clear; entry keeps the number of handlers run before, and
\* the records of the block still to run
RaiseIrq ==
    /\ pc = "EXEC"
    /\ call = 1
    /\ inst_base \in DOMAIN inst_buf
    /\ cpu.NirqSig = 1
    /\ BIT(cpu.Cpsr, 7) = 0
    /\ "raised" \notin DOMAIN entry
    /\ cpu' = [cpu EXCEPT !.NirqSig = 0]
    /\ entry' = [raised |-> dispatched, rest |-> RestOfBlock(inst_base)] @@ entry
    /\ UNCHANGED <<mem, inst_buf, top, instruction_cache, ptr, inst_base, num_instrs, pc,
                   ret, call, first, last, dispatched, sticky>>

IrqNext == Next \/ RaiseIrq

IrqSpec == IrqInit /\ [][IrqNext]_vars

\* an IRQ raised inside a block of this call is asserted with the I bit clear
IrqPending ==
    /\ "raised" \in DOMAIN entry
    /\ call = 1
    /\ cpu.NirqSig = 0
    /\ BIT(cpu.Cpsr, 7) = 0

====
